---- MODULE Spec2Model ----
(***************************************************************************)
(* Model of the hierarchical section engine of janusz/converter.py:        *)
(* UniversalToYAMLConverter._parse_hierarchical_sections and its helpers   *)
(* _add_section_to_hierarchy, _save_current_content and                    *)
(* _flatten_sections_hierarchy.                                            *)
(*                                                                         *)
(* A text is a sequence of one-character strings; a line is a sequence of  *)
(* characters without "\n".  Python dictionaries are shared by reference   *)
(* between the root list, the parents' "subsections" lists and the stack,  *)
(* so the section dictionaries live in a heap (nodes) and the lists hold   *)
(* references (indices into nodes).                                        *)
(***************************************************************************)
EXTENDS Integers, Sequences, FiniteSets, TLC

VARIABLES text, lines, i, sections, section_stack, current_content, nodes,
          flat, pc,
          converter, history,
          strategy, candidates, unique_keywords,
          caller, env, doc, analysis2, result, yaml_written, log,
          file_path, extension, file_type,
          kind, queue, cur, fs, calls, ret, successful, failed,
          chunk_size, overlap, start, chunk_id, chunks,
          index, doc_store, results

\* the converter object of the call and the results of the earlier calls
callvars == <<converter, history>>

\* keyword extraction: the strategy that produced the candidate keywords,
\* the candidates, and the list extract_keywords returns
kwvars == <<strategy, candidates, unique_keywords>>

\* the conversion: the entry point that was called, the host's linguistic
\* libraries, the DocumentStructure built (at most one), the lists of a
\* second annotation of the same text and sections (at most one), what
\* convert_to_yaml returned, whether the YAML file was written, and the
\* last message logged
docvars == <<caller, env, doc, analysis2, result, yaml_written, log>>

\* the construction of a converter: the path given, and the extension and
\* the file type the object holds
newvars == <<file_path, extension, file_type>>

\* the TOON converters: which converter runs (YAML or JSON source), the
\* files convert_directory has still to process, the file of the running
\* convert(), the files that exist, the steps convert() has taken with
\* their outcomes, what convert() returned, and the two counters of
\* convert_directory
toonvars == <<kind, queue, cur, fs, calls, ret, successful, failed>>

\* the text chunker: its configuration, the position and the counter of the
\* loop of chunk_text, and the chunks collected
chunkvars == <<chunk_size, overlap, start, chunk_id, chunks>>

\* the FAISS vector store: the vectors of the index in the order they were
\* added, the documents of doc_store in the order of its keys, and what the
\* last search returned
storevars == <<index, doc_store, results>>

\* the retrieval components
ragvars == <<chunkvars, storevars>>

\* the components around the document conversion
aux == <<newvars, toonvars, ragvars>>

\* what the parsing loop never touches
others == <<callvars, kwvars, docvars, aux>>

vars == <<text, lines, i, sections, section_stack, current_content, nodes,
          flat, pc, others>>

(***************************************************************************)
(* Bounds of the model.                                                    *)
(***************************************************************************)
MaxLines == 4

MaxCalls == 3

\* candidates beyond the limits of the keyword lists
MaxExtra == 1

(***************************************************************************)
(* Character classes.                                                      *)
(***************************************************************************)
Whitespace == {" ", "\t", "\n"}

Digits == {"0", "1", "2", "3", "4", "5", "6", "7", "8", "9"}

UpperCase == {"A", "B", "C", "D", "E", "F", "G", "H", "I", "J", "K", "L", "M",
              "N", "O", "P", "Q", "R", "S", "T", "U", "V", "W", "X", "Y", "Z"}

LowerCase == {"a", "b", "c", "d", "e", "f", "g", "h", "i", "j", "k", "l", "m",
              "n", "o", "p", "q", "r", "s", "t", "u", "v", "w", "x", "y", "z"}

(***************************************************************************)
(* Generic sequence helpers.                                               *)
(***************************************************************************)
Last(s) == s[Len(s)]

Front(s) == SubSeq(s, 1, Len(s) - 1)

\* number of leading characters of s that belong to the class cls
LeadingCount(s, cls) ==
    IF \A k \in 1..Len(s) : s[k] \in cls THEN Len(s)
    ELSE (CHOOSE k \in 1..Len(s) :
              s[k] \notin cls /\ \A j \in 1..(k - 1) : s[j] \in cls) - 1

\* number of trailing characters of s that belong to the class cls
TrailingCount(s, cls) ==
    IF \A k \in 1..Len(s) : s[k] \in cls THEN Len(s)
    ELSE Len(s) - (CHOOSE k \in 1..Len(s) :
                       s[k] \notin cls /\ \A j \in (k + 1)..Len(s) : s[j] \in cls)

\* str.strip(): drop the leading and the trailing run of whitespace
Strip(s) ==
    LET a == LeadingCount(s, Whitespace)
    IN  IF a = Len(s) THEN <<>>
        ELSE SubSeq(s, a + 1, Len(s) - TrailingCount(s, Whitespace))

RECURSIVE Split(_)
\* text.split("\n")
Split(t) ==
    IF \A k \in 1..Len(t) : t[k] # "\n" THEN <<t>>
    ELSE LET n == CHOOSE k \in 1..Len(t) :
                      t[k] = "\n" /\ \A j \in 1..(k - 1) : t[j] # "\n"
         IN  <<SubSeq(t, 1, n - 1)>> \o Split(SubSeq(t, n + 1, Len(t)))

RECURSIVE Join(_)
\* "\n".join(ls)
Join(ls) ==
    IF ls = <<>> THEN <<>>
    ELSE IF Len(ls) = 1 THEN ls[1]
    ELSE ls[1] \o <<"\n">> \o Join(Tail(ls))

(***************************************************************************)
(* Heading classification (the three tests of the parsing loop).           *)
(***************************************************************************)
\* variant: a longer marker run is accepted and counted as six markers
HeaderMarkersCapped(line) ==
    LET n == LeadingCount(line, {"#"})
        w == LeadingCount(SubSeq(line, n + 1, Len(line)), Whitespace)
    IN  IF n >= 1 /\ w >= 1 /\ (Len(line) > n + w \/ w >= 2)
        THEN (IF n > 6 THEN 6 ELSE n) ELSE 0

\* length of the marker run that re.match(r'^(#{1,6})\s+(.+)') takes as
\* group 1, or 0 when the pattern does not match the line
HeaderMarkers(line) ==
    LET n == LeadingCount(line, {"#"})
        w == LeadingCount(SubSeq(line, n + 1, Len(line)), Whitespace)
    IN  IF n >= 1 /\ n <= 6 /\ w >= 1 /\ (Len(line) > n + w \/ w >= 2)
        THEN n ELSE 0

header_match(line) == HeaderMarkers(line) > 0

\* group 2 of the header pattern: what follows the greedy whitespace run
HeaderGroup2(line) ==
    LET n == LeadingCount(line, {"#"})
        w == LeadingCount(SubSeq(line, n + 1, Len(line)), Whitespace)
    IN  IF Len(line) > n + w THEN SubSeq(line, n + w + 1, Len(line))
        ELSE <<Last(line)>>

\* variant: the numbered pattern is not a heading trigger
numbered_never(line) == FALSE

\* re.match(r'^\d+\.\s+.+$', line)
numbered_match(line) ==
    LET d == LeadingCount(line, Digits)
        w == LeadingCount(SubSeq(line, d + 2, Len(line)), Whitespace)
    IN  /\ d >= 1
        /\ Len(line) > d
        /\ line[d + 1] = "."
        /\ w >= 1
        /\ (Len(line) > d + 1 + w \/ w >= 2)

\* str.isupper(): at least one cased character and no lowercase one
isupper(line) ==
    /\ \E k \in 1..Len(line) : line[k] \in UpperCase
    /\ \A k \in 1..Len(line) : line[k] \notin LowerCase

endswith_period(line) == line # <<>> /\ Last(line) = "."

MaxCapsLen == 100

\* variant: the length of the line is not looked at
caps_match_any_length(line) == isupper(line) /\ ~endswith_period(line)

caps_match(line) ==
    Len(line) < MaxCapsLen /\ isupper(line) /\ ~endswith_period(line)

\* level of a markdown header: len(header_match.group(1))
HeaderLevel(line) == HeaderMarkers(line)

\* title of a markdown header: header_match.group(2).strip()
HeaderTitle(line) == Strip(HeaderGroup2(line))

\* variant: the ALL CAPS test is tried before the two patterns
ClassifyCapsFirst(line) ==
    IF caps_match(line) THEN "caps"
    ELSE IF header_match(line) THEN "markdown"
    ELSE IF numbered_match(line) THEN "numbered"
    ELSE "content"

\* the if / elif / elif / else chain of the loop: the first test that
\* succeeds decides the branch
Classify(line) ==
    IF header_match(line) THEN "markdown"
    ELSE IF numbered_match(line) THEN "numbered"
    ELSE IF caps_match(line) THEN "caps"
    ELSE "content"

\* variant: a numbered section is taken to be a second-level section
NumberedLevelNested(line) == 2

\* level of a numbered section ("Assume top level for numbered sections")
NumberedLevel(line) == 1

\* level of an ALL CAPS title
CapsLevel(line) == 1

\* f"section_{len(sections)}"
SectionId(secs) == <<"section_", Len(secs)>>

\* the dictionary literal created for a heading
NewSection(secs, title, level) ==
    [id |-> SectionId(secs), title |-> title, level |-> level,
     content |-> <<>>, subsections |-> <<>>, children |-> <<>>]

(***************************************************************************)
(* _save_current_content                                                   *)
(***************************************************************************)
\* the list comprehension [line for line in current_content if line.strip()]
ContentLines(content) == SelectSeq(content, LAMBDA l : Strip(l) # <<>>)

\* variant: the content goes to the outermost open section
TargetSectionOutermost(stack) == stack[1]

\* the section of the stack that receives the buffered content
TargetSection(stack) == Last(stack)

\* target_section["content"].extend(content_lines)
ExtendContent(old, content_lines) == old \o content_lines

\* returns the heap after the call
SaveCurrentContent(stack, content, heap) ==
    IF content = <<>> \/ stack = <<>> THEN heap
    ELSE LET target_section == TargetSection(stack)
             content_lines == ContentLines(content)
         IN  IF content_lines # <<>>
             THEN [heap EXCEPT ![target_section].content =
                                   ExtendContent(@, content_lines)]
             ELSE heap

(***************************************************************************)
(* _add_section_to_hierarchy                                               *)
(***************************************************************************)
\* variant: only sections of a strictly higher level are popped
ShouldPopStrict(top_level, level) == top_level > level

\* the loop condition section_stack[-1]["level"] >= level
ShouldPop(top_level, level) == top_level >= level

\* variant: an if in place of the while, at most one section is popped
PopStackOnce(stack, heap, level) ==
    IF stack # <<>> /\ ShouldPop(heap[Last(stack)].level, level)
    THEN Front(stack)
    ELSE stack

RECURSIVE PopStack(_, _, _)
\* while section_stack and section_stack[-1]["level"] >= level: pop()
PopStack(stack, heap, level) ==
    IF stack # <<>> /\ ShouldPop(heap[Last(stack)].level, level)
    THEN PopStack(Front(stack), heap, level)
    ELSE stack

\* variant: the new section is put in front of the parent's list
AttachToParentFirst(parent_rec, ref) ==
    [parent_rec EXCEPT !.subsections = <<ref>> \o @]

\* parent["subsections"].append(new_section)
AttachToParent(parent_rec, ref) ==
    [parent_rec EXCEPT !.subsections = Append(@, ref)]

\* returns the root list, the stack and the heap after the call; the new
\* dictionary is allocated at the end of the heap
AddSectionToHierarchy(secs, stack, heap, new_section, level) ==
    LET ref == Len(heap) + 1
        popped == PopStack(stack, heap, level)
        heap1 == Append(heap, new_section)
    IN  IF popped # <<>>
        THEN [sections |-> secs,
              section_stack |-> Append(popped, ref),
              nodes |-> [heap1 EXCEPT ![Last(popped)] =
                                          AttachToParent(@, ref)]]
        ELSE [sections |-> Append(secs, ref),
              section_stack |-> Append(popped, ref),
              nodes |-> heap1]

(***************************************************************************)
(* _flatten_sections_hierarchy                                             *)
(***************************************************************************)
\* the flat copy of one section; the two list fields are the same list
\* objects as in the original dictionary
FlatSection(section) ==
    [id |-> section.id, title |-> section.title, level |-> section.level,
     content |-> section.content, subsections |-> section.subsections,
     children |-> section.children]

\* variant: the subsections are emitted before their parent
VisitOrderPost(own, below) == below \o own

\* order in which flatten_recursive emits a section and its subsections
VisitOrder(own, below) == own \o below

RECURSIVE flatten_recursive(_, _)
flatten_recursive(section_list, heap) ==
    IF section_list = <<>> THEN <<>>
    ELSE LET section == heap[Head(section_list)]
             below == IF section.subsections # <<>>
                      THEN flatten_recursive(section.subsections, heap)
                      ELSE <<>>
         IN  VisitOrder(<<FlatSection(section)>>, below)
                 \o flatten_recursive(Tail(section_list), heap)

\* variant: only the root-level sections are returned
FlattenRootsOnly(secs, heap) ==
    [k \in 1..Len(secs) |-> FlatSection(heap[secs[k]])]

FlattenSectionsHierarchy(secs, heap) == flatten_recursive(secs, heap)

(***************************************************************************)
(* Input texts.                                                            *)
(***************************************************************************)
LineH1 == <<"#", " ", "A">>

LineH2 == <<"#", "#", " ", "B">>

LineH3 == <<"#", "#", "#", " ", "c">>

LineNumbered == <<"7", ".", " ", "x">>

LineCaps == <<"O", "K">>

LineA == <<"a">>

LineB == <<" ", "b">>

LineBlank == <<>>

LinePool == {LineH1, LineH2, LineH3, LineNumbered, LineCaps, LineA, LineB,
             LineBlank}

LineSeqs == UNION {[1..n -> LinePool] : n \in 0..MaxLines}

\* "# A", "## B", "## C", "# D"
TextABCD ==
    Join(<<<<"#", " ", "A">>,
          <<"#", "#", " ", "B">>,
          <<"#", "#", " ", "C">>,
          <<"#", " ", "D">>>>)

\* "## X", "## Y"
TextXY ==
    Join(<<<<"#", "#", " ", "X">>,
          <<"#", "#", " ", "Y">>>>)

\* "# A", "line1", "", "line2", "## B", "line3"
TextContent ==
    Join(<<<<"#", " ", "A">>,
          <<"l", "i", "n", "e", "1">>,
          <<>>,
          <<"l", "i", "n", "e", "2">>,
          <<"#", "#", " ", "B">>,
          <<"l", "i", "n", "e", "3">>>>)

\* "intro line", "# A", "body"
TextPreamble ==
    Join(<<<<"i", "n", "t", "r", "o", " ", "l", "i", "n", "e">>,
          <<"#", " ", "A">>,
          <<"b", "o", "d", "y">>>>)

\* "# Intro\n\nHello\n\n## Setup\n\n1. Install\n2. Run\n"
TextNumbered ==
    Join(<<<<"#", " ", "I", "n", "t", "r", "o">>,
          <<>>,
          <<"H", "e", "l", "l", "o">>,
          <<>>,
          <<"#", "#", " ", "S", "e", "t", "u", "p">>,
          <<>>,
          <<"1", ".", " ", "I", "n", "s", "t", "a", "l", "l">>,
          <<"2", ".", " ", "R", "u", "n">>,
          <<>>>>)

\* "# A", "## B", "### c", "a", "12. z": a numbered line below three nested
\* headings
TextDeep ==
    Join(<<<<"#", " ", "A">>,
          <<"#", "#", " ", "B">>,
          <<"#", "#", "#", " ", "c">>,
          <<"a">>,
          <<"1", "2", ".", " ", "z">>>>)

\* "# A", "## SETUP": a markup line that also has the ALL CAPS form
TextSetup ==
    Join(<<<<"#", " ", "A">>,
          <<"#", "#", " ", "S", "E", "T", "U", "P">>>>)

\* "# A", "####### X", "######## y", "###### Z": marker runs of 7, 8 and 6
TextSeven ==
    Join(<<<<"#", " ", "A">>,
          <<"#", "#", "#", "#", "#", "#", "#", " ", "X">>,
          <<"#", "#", "#", "#", "#", "#", "#", "#", " ", "y">>,
          <<"#", "#", "#", "#", "#", "#", " ", "Z">>>>)

\* a line of n capital letters
CapsLine(n) == [k \in 1..n |-> "A"]

\* an ALL CAPS line of 99 characters, one of 100, "DONE.", "V2: GO!",
\* "Mixed Case"
TextShout ==
    Join(<<CapsLine(99),
          CapsLine(100),
          <<"D", "O", "N", "E", ".">>,
          <<"V", "2", ":", " ", "G", "O", "!">>,
          <<"M", "i", "x", "e", "d", " ", "C", "a", "s", "e">>>>)

Scenarios == {TextABCD, TextXY, TextContent, TextPreamble, TextNumbered,
              TextDeep, TextSetup, TextSeven, TextShout}

Inputs == {Join(ls) : ls \in LineSeqs} \cup Scenarios

(***************************************************************************)
(* The parsing loop of _parse_hierarchical_sections, one line per step.    *)
(***************************************************************************)
\* variant: the list is kept from the previous call (an attribute or a
\* mutable default in place of a local)
ReusedList(previous) == previous

\* sections = [], section_stack = [], current_content = []: a new empty
\* list, whatever the name was bound to in an earlier call
EmptyList(previous) == <<>>

\* the locals at the start of a call of _parse_hierarchical_sections
LoopInit ==
    /\ lines = Split(text)
    /\ i = 1
    /\ sections = EmptyList(<<>>)
    /\ section_stack = EmptyList(<<>>)
    /\ current_content = EmptyList(<<>>)
    /\ nodes = <<>>
    /\ flat = <<>>
    /\ pc = "loop"

\* one converter object, no earlier call
NoCalls ==
    /\ converter = 1
    /\ history = <<>>

\* no keyword extraction has run
NoKeywords ==
    /\ strategy = "none"
    /\ candidates = <<>>
    /\ unique_keywords = <<>>

\* no converter is being constructed
NoPath ==
    /\ file_path = <<>>
    /\ extension = <<>>
    /\ file_type = ""

\* no TOON conversion is under way
NoToon ==
    /\ kind = "none"
    /\ queue = <<>>
    /\ cur = 0
    /\ fs = {}
    /\ calls = <<>>
    /\ ret = "none"
    /\ successful = 0
    /\ failed = 0

\* no text is being chunked
NoChunks ==
    /\ chunk_size = 0
    /\ overlap = 0
    /\ start = 0
    /\ chunk_id = 0
    /\ chunks = <<>>

\* no vector store is in use
NoStore ==
    /\ index = <<>>
    /\ doc_store = <<>>
    /\ results = <<>>

NoRag == NoChunks /\ NoStore

\* the other components are idle
NoAux == NoPath /\ NoToon /\ NoRag

\* no conversion is under way: the structuring is called on its own
NoDocument ==
    /\ caller = "_parse_hierarchical_sections"
    /\ env = [spacy |-> "ok", nltk |-> "ok", found |-> "nothing"]
    /\ doc = <<>>
    /\ analysis2 = <<>>
    /\ result = "none"
    /\ yaml_written = FALSE
    /\ log = ""

Init ==
    /\ text \in Inputs
    /\ LoopInit
    /\ NoCalls
    /\ NoKeywords
    /\ NoDocument
    /\ NoAux

\* the line the loop is at, after line = line.strip()
CurLine == Strip(lines[i])

InLoop == pc = "loop" /\ i <= Len(lines)

\* the common body of the three heading branches
StartSection(title, level) ==
    LET saved == SaveCurrentContent(section_stack, current_content, nodes)
        new_section == NewSection(sections, title, level)
        r == AddSectionToHierarchy(sections, section_stack, saved,
                                   new_section, level)
    IN  /\ current_content' = <<>>
        /\ sections' = r.sections
        /\ section_stack' = r.section_stack
        /\ nodes' = r.nodes
        /\ i' = i + 1
        /\ UNCHANGED <<text, lines, flat, pc, others>>

\* if not line: ... continue
BlankLine ==
    /\ InLoop
    /\ CurLine = <<>>
    /\ current_content' = IF current_content # <<>>
                          THEN Append(current_content, <<>>)
                          ELSE current_content
    /\ i' = i + 1
    /\ UNCHANGED <<text, lines, sections, section_stack, nodes, flat, pc, others>>

MarkdownHeader ==
    /\ InLoop
    /\ CurLine # <<>>
    /\ Classify(CurLine) = "markdown"
    /\ StartSection(HeaderTitle(CurLine), HeaderLevel(CurLine))

NumberedSection ==
    /\ InLoop
    /\ CurLine # <<>>
    /\ Classify(CurLine) = "numbered"
    /\ StartSection(CurLine, NumberedLevel(CurLine))

AllCapsTitle ==
    /\ InLoop
    /\ CurLine # <<>>
    /\ Classify(CurLine) = "caps"
    /\ StartSection(CurLine, CapsLevel(CurLine))

RegularContent ==
    /\ InLoop
    /\ CurLine # <<>>
    /\ Classify(CurLine) = "content"
    /\ current_content' = Append(current_content, CurLine)
    /\ i' = i + 1
    /\ UNCHANGED <<text, lines, sections, section_stack, nodes, flat, pc, others>>

\* after the loop: save the final content and flatten
Finish ==
    /\ pc = "loop"
    /\ i > Len(lines)
    /\ LET saved == SaveCurrentContent(section_stack, current_content, nodes)
       IN  /\ nodes' = saved
           /\ flat' = FlattenSectionsHierarchy(sections, saved)
    /\ pc' = "done"
    /\ UNCHANGED <<text, lines, i, sections, section_stack, current_content,
                   others>>

Next ==
    \/ BlankLine
    \/ MarkdownHeader
    \/ NumberedSection
    \/ AllCapsTitle
    \/ RegularContent
    \/ Finish

Spec == Init /\ [][Next]_vars

(***************************************************************************)
(* Several structuring calls in a row, on the same or on another           *)
(* converter object.  The dictionaries of the earlier calls stay in the    *)
(* heap; a result is kept by value.                                        *)
(***************************************************************************)
Converters == 1..2

CallInputs == {TextABCD, TextNumbered, TextContent, TextXY,
               Join(<<LineCaps, LineB>>)}

RECURSIVE Resolve(_, _)
\* a section dictionary with the dictionaries it refers to, by value
Resolve(section, heap) ==
    [id |-> section.id, title |-> section.title, level |-> section.level,
     content |-> section.content,
     subsections |-> [k \in 1..Len(section.subsections) |->
                         Resolve(heap[section.subsections[k]], heap)],
     children |-> [k \in 1..Len(section.children) |->
                      Resolve(heap[section.children[k]], heap)]]

\* the list a call returns, by value
Returned(fl, heap) == [k \in 1..Len(fl) |-> Resolve(fl[k], heap)]

InitCalls ==
    /\ text \in CallInputs
    /\ converter \in Converters
    /\ history = <<>>
    /\ LoopInit
    /\ NoKeywords
    /\ NoDocument
    /\ NoAux

\* the previous call has returned; the next one starts on some converter
NewCall ==
    /\ pc = "done"
    /\ Len(history) < MaxCalls - 1
    /\ history' = Append(history, [text |-> text,
                                   sections |-> Returned(flat, nodes)])
    /\ text' \in CallInputs
    /\ converter' \in Converters
    /\ lines' = Split(text')
    /\ i' = 1
    /\ sections' = EmptyList(sections)
    /\ section_stack' = EmptyList(section_stack)
    /\ current_content' = EmptyList(current_content)
    /\ flat' = <<>>
    /\ pc' = "loop"
    /\ UNCHANGED <<nodes, kwvars, docvars, aux>>

NextCalls == Next \/ NewCall

SpecCalls == InitCalls /\ [][NextCalls]_vars

TypeOK ==
    /\ pc \in {"loop", "done"}
    /\ i \in 1..(Len(lines) + 1)
    /\ \A k \in 1..Len(sections) : sections[k] \in 1..Len(nodes)
    /\ \A k \in 1..Len(section_stack) : section_stack[k] \in 1..Len(nodes)

(***************************************************************************)
(* nlp_utils.py: deduplication and limits of the keyword lists.            *)
(***************************************************************************)
UpperSeq == <<"A", "B", "C", "D", "E", "F", "G", "H", "I", "J", "K", "L", "M",
              "N", "O", "P", "Q", "R", "S", "T", "U", "V", "W", "X", "Y", "Z">>

LowerSeq == <<"a", "b", "c", "d", "e", "f", "g", "h", "i", "j", "k", "l", "m",
              "n", "o", "p", "q", "r", "s", "t", "u", "v", "w", "x", "y", "z">>

LowerChar(c) ==
    IF c \in UpperCase
    THEN LowerSeq[CHOOSE k \in 1..26 : UpperSeq[k] = c]
    ELSE c

\* str.lower()
ToLower(str) == [k \in 1..Len(str) |-> LowerChar(str[k])]

\* a slice lst[:n]
Take(lst, n) == SubSeq(lst, 1, IF Len(lst) < n THEN Len(lst) ELSE n)

\* Keyword(text=..., confidence_level=...)
Keyword(word, level) == [text |-> word, confidence_level |-> level]

\* keywords[:100]
PreLimit == 100

\* unique_keywords[:50] of extract_keywords_nlp
TopLimit == 50

\* unique_keywords[:30] of extract_keywords_fallback
FallbackLimit == 30

\* the key kept in the set seen: kw.text.lower()
SeenKey(word) == ToLower(word)

RECURSIVE Deduplicate(_, _)
\* the loop that appends kw unless kw.text.lower() is in seen
Deduplicate(keywords, seen) ==
    IF keywords = <<>> THEN <<>>
    ELSE LET kw == Head(keywords)
         IN  IF SeenKey(kw.text) \notin seen
             THEN <<kw>> \o Deduplicate(Tail(keywords),
                                        seen \cup {SeenKey(kw.text)})
             ELSE Deduplicate(Tail(keywords), seen)

\* variant: the whole list is deduplicated and cut to 50 whatever the
\* strategy
UniqueLimitedWhole(keywords, limit) ==
    Take(Deduplicate(keywords, {}), TopLimit)

\* the tail of both extraction functions: cut to 100, deduplicate, cut
UniqueLimited(keywords, limit) ==
    Take(Deduplicate(Take(keywords, PreLimit), {}), limit)

(***************************************************************************)
(* The keyword tail on its own, on candidate lists long enough to meet     *)
(* the limits.                                                             *)
(***************************************************************************)
DigitSeq == <<"0", "1", "2", "3", "4", "5", "6", "7", "8", "9">>

\* the n-th candidate word, capitalised or not
Word(n, capital) ==
    <<IF capital THEN "K" ELSE "k", DigitSeq[((n \div 100) % 10) + 1],
      DigitSeq[((n \div 10) % 10) + 1], DigitSeq[(n % 10) + 1]>>

\* the confidence level each strategy gives to what it finds
StrategyLevel(st) ==
    IF st = "spacy" THEN "high" ELSE IF st = "nltk" THEN "medium" ELSE "low"

\* d spellings of one word followed by n different words
CandidateList(d, n, level) ==
    [k \in 1..(d + n) |->
        IF k <= d THEN Keyword(Word(0, k % 2 = 1), level)
        ELSE Keyword(Word(k - d, k % 2 = 0), level)]

\* the structuring variables when no structuring call is running
NoParse ==
    /\ lines = <<>>
    /\ i = 1
    /\ sections = <<>>
    /\ section_stack = <<>>
    /\ current_content = <<>>
    /\ nodes = <<>>
    /\ flat = <<>>

InitKw ==
    /\ text = <<>>
    /\ NoParse
    /\ NoCalls
    /\ strategy \in {"spacy", "nltk", "fallback", "fallback_in_nlp"}
    /\ \E d \in {0, 1, 2, PreLimit - 1, PreLimit},
          n \in 0..(TopLimit + MaxExtra) :
          candidates = CandidateList(d, n, StrategyLevel(strategy))
    /\ unique_keywords = <<>>
    /\ pc = "keywords"
    /\ NoDocument
    /\ NoAux

\* lines 136-144 of extract_keywords_fallback
FallbackTail ==
    /\ pc = "keywords"
    /\ strategy \in {"fallback", "fallback_in_nlp"}
    /\ unique_keywords' = UniqueLimited(candidates, FallbackLimit)
    /\ pc' = IF strategy = "fallback" THEN "keywords_done" ELSE "nlp_tail"
    /\ UNCHANGED <<text, lines, i, sections, section_stack, current_content,
                   nodes, flat, callvars, docvars, aux, strategy, candidates>>

\* lines 100-108 of extract_keywords_nlp; after both imports failed its
\* keywords are what extract_keywords_fallback returned
NlpTail ==
    /\ \/ /\ pc = "keywords"
          /\ strategy \in {"spacy", "nltk"}
          /\ unique_keywords' = UniqueLimited(candidates, TopLimit)
       \/ /\ pc = "nlp_tail"
          /\ unique_keywords' = UniqueLimited(unique_keywords, TopLimit)
    /\ pc' = "keywords_done"
    /\ UNCHANGED <<text, lines, i, sections, section_stack, current_content,
                   nodes, flat, callvars, docvars, aux, strategy, candidates>>

NextKw == FallbackTail \/ NlpTail

SpecKw == InitKw /\ [][NextKw]_vars

(***************************************************************************)
(* nlp_utils.py: the three extraction strategies and their fallbacks.      *)
(***************************************************************************)
STOPWORDS == {
    <<"a">>, <<"a", "n">>, <<"a", "n", "d">>, <<"a", "r", "e">>,
    <<"a", "s">>, <<"a", "t">>, <<"b", "e">>, <<"b", "y">>,
    <<"f", "o", "r">>, <<"f", "r", "o", "m">>, <<"h", "a", "s">>,
    <<"i", "n">>, <<"i", "s">>, <<"i", "t">>, <<"i", "t", "s">>,
    <<"o", "f">>, <<"o", "n">>, <<"t", "h", "a", "t">>, <<"t", "h", "e">>,
    <<"t", "o">>, <<"w", "a", "s">>, <<"w", "i", "l", "l">>,
    <<"w", "i", "t", "h">>, <<"b", "u", "t">>, <<"o", "r">>,
    <<"n", "o", "t">>, <<"t", "h", "i", "s">>, <<"t", "h", "e", "s", "e">>,
    <<"t", "h", "o", "s", "e">>, <<"i">>, <<"y", "o", "u">>, <<"w", "e">>,
    <<"t", "h", "e", "y">>, <<"h", "e">>, <<"s", "h", "e">>, <<"m", "e">>,
    <<"h", "i", "m">>, <<"h", "e", "r">>, <<"u", "s">>,
    <<"t", "h", "e", "m">>, <<"m", "y">>, <<"y", "o", "u", "r">>,
    <<"o", "u", "r">>, <<"t", "h", "e", "i", "r">>, <<"h", "i", "s">>,
    <<"w", "h", "a", "t">>, <<"w", "h", "i", "c", "h">>, <<"w", "h", "o">>,
    <<"w", "h", "e", "n">>, <<"w", "h", "e", "r", "e">>, <<"w", "h", "y">>,
    <<"h", "o", "w">>, <<"a", "l", "l">>, <<"a", "n", "y">>,
    <<"b", "o", "t", "h">>, <<"e", "a", "c", "h">>, <<"f", "e", "w">>,
    <<"m", "o", "r", "e">>, <<"m", "o", "s", "t">>,
    <<"o", "t", "h", "e", "r">>, <<"s", "o", "m", "e">>,
    <<"s", "u", "c", "h">>, <<"n", "o">>, <<"n", "o", "r">>,
    <<"t", "o", "o">>, <<"v", "e", "r", "y">>, <<"c", "a", "n">>,
    <<"j", "u", "s", "t">>, <<"s", "h", "o", "u", "l", "d">>}

\* the characters \w matches
WordChars == UpperCase \cup LowerCase \cup Digits \cup {"_"}

Letters == UpperCase \cup LowerCase

\* where a maximal run of word characters starts
WordStarts(t) ==
    {k \in 1..Len(t) : t[k] \in WordChars /\ (k = 1 \/ t[k - 1] \notin WordChars)}

\* where the run that starts at k ends
WordEnd(t, k) ==
    CHOOSE j \in k..Len(t) :
        /\ \A m \in k..j : t[m] \in WordChars
        /\ j = Len(t) \/ t[j + 1] \notin WordChars

\* the maximal runs of word characters of a text, in the order of the
\* text: what lies between two successive \b of a pattern that matches word
\* characters only
WordRuns(t) ==
    LET starts == WordStarts(t)
        nth(n) == CHOOSE k \in starts : Cardinality({j \in starts : j < k}) = n - 1
    IN  [n \in 1..Cardinality(starts) |-> SubSeq(t, nth(n), WordEnd(t, nth(n)))]

\* \b[A-Z][a-zA-Z]{3,}\b
IsCapitalized(w) ==
    /\ Len(w) >= 4
    /\ w[1] \in UpperCase
    /\ \A k \in 1..Len(w) : w[k] \in Letters

\* \b[a-zA-Z]+[0-9]+[a-zA-Z]*\b|\b[a-z]+_[a-z]+\b
IsTechnical(w) ==
    \/ LET a == LeadingCount(w, Letters)
           d == LeadingCount(SubSeq(w, a + 1, Len(w)), Digits)
           z == LeadingCount(SubSeq(w, a + d + 1, Len(w)), Letters)
       IN  a >= 1 /\ d >= 1 /\ a + d + z = Len(w)
    \/ LET a == LeadingCount(w, LowerCase)
           z == LeadingCount(SubSeq(w, a + 2, Len(w)), LowerCase)
       IN  /\ a >= 1 /\ Len(w) > a /\ w[a + 1] = "_"
           /\ z >= 1 /\ a + 1 + z = Len(w)

\* confidence_level of a capitalized word of the fallback
CapitalizedLevel(w) == "low"

\* confidence_level of a technical term of the fallback
TechnicalLevel(w) == "medium"

\* the keywords list of extract_keywords_fallback before its tail
FallbackCandidates(t) ==
    LET ws == WordRuns(t)
        capitalized == SelectSeq(ws, LAMBDA w : IsCapitalized(w)
                                     /\ ToLower(w) \notin STOPWORDS)
        technical == SelectSeq(ws, IsTechnical)
    IN  [k \in 1..Len(capitalized) |->
            Keyword(capitalized[k], CapitalizedLevel(capitalized[k]))]
        \o [k \in 1..Len(technical) |->
               Keyword(technical[k], TechnicalLevel(technical[k]))]

extract_keywords_fallback(t) == UniqueLimited(FallbackCandidates(t), FallbackLimit)

\* What the linguistic libraries of the host report is not decided by this
\* repository: either nothing, or every word of the text as a noun (chunk)
\* and, for spaCy, the first word as a named entity as well.
FoundChoices == {"nothing", "words"}

Found(t, found) == IF found = "words" THEN WordRuns(t) ELSE <<>>

\* the keywords list of the spaCy branch before the tail
SpacyCandidates(t, found) ==
    LET noun_chunks == SelectSeq(Found(t, found),
                            LAMBDA c : Len(Strip(c)) > 3
                                /\ Strip(ToLower(c)) \notin STOPWORDS)
        ents == Take(Found(t, found), 1)
    IN  [k \in 1..Len(noun_chunks) |-> Keyword(Strip(noun_chunks[k]), "high")]
        \o [k \in 1..Len(ents) |-> Keyword(Strip(ents[k]), "high")]

\* the keywords list of the NLTK branch before the tail
NltkCandidates(t, found) ==
    LET nouns == SelectSeq(Found(t, found),
                           LAMBDA w : Len(w) > 3 /\ ToLower(w) \notin STOPWORDS)
    IN  [k \in 1..Len(nouns) |-> Keyword(nouns[k], "medium")]

\* The host: spaCy imports and works, or is not installed (ImportError),
\* or its model cannot be loaded nor downloaded, or the analysis raises;
\* NLTK is installed and works (were it tried), is not installed, or
\* raises.  found: what a working library reports.
Environments ==
    {e \in [spacy : {"ok", "ImportError", "load_fails", "analysis_raises"},
            nltk : {"ok", "ImportError", "raises"},
            found : FoundChoices] :
        e.nltk # "ok" => (e.spacy = "ImportError" /\ e.found = "nothing")}

\* which branch produces the keywords list that reaches a tail
StrategyOf(e) ==
    IF e.spacy = "ok" THEN "spacy"
    ELSE IF e.spacy = "ImportError" /\ e.nltk = "ok" THEN "nltk"
    ELSE IF e.spacy = "ImportError" /\ e.nltk = "ImportError"
    THEN "fallback_in_nlp"
    ELSE "fallback"

\* the outcome of extract_keywords_nlp: a list, or an exception that is
\* not an ImportError and leaves the function
extract_keywords_nlp(t, e) ==
    IF e.spacy = "ok"
    THEN [raised |-> FALSE,
          keywords |-> UniqueLimited(SpacyCandidates(t, e.found), TopLimit)]
    ELSE IF e.spacy = "ImportError"
    THEN IF e.nltk = "ok"
         THEN [raised |-> FALSE,
               keywords |-> UniqueLimited(NltkCandidates(t, e.found), TopLimit)]
         ELSE IF e.nltk = "ImportError"
         THEN [raised |-> FALSE,
               keywords |-> UniqueLimited(extract_keywords_fallback(t), TopLimit)]
         ELSE [raised |-> TRUE, keywords |-> <<>>]
    ELSE [raised |-> TRUE, keywords |-> <<>>]

\* variant: no handler around the call, the exception leaves extract_keywords
NoHandler(r, t) == r

\* try: return extract_keywords_nlp(text)
\* except Exception: return extract_keywords_fallback(text)
ExceptException(r, t) ==
    IF r.raised
    THEN [raised |-> FALSE, keywords |-> extract_keywords_fallback(t)]
    ELSE r

extract_keywords(t, e) ==
    IF t = <<>> \/ Strip(t) = <<>>
    THEN [raised |-> FALSE, keywords |-> <<>>]
    ELSE ExceptException(extract_keywords_nlp(t, e), t)

\* the keywords list before the tail that returns it
CandidatesOf(t, e) ==
    IF t = <<>> \/ Strip(t) = <<>> THEN <<>>
    ELSE IF StrategyOf(e) = "spacy" THEN SpacyCandidates(t, e.found)
    ELSE IF StrategyOf(e) = "nltk" THEN NltkCandidates(t, e.found)
    ELSE FallbackCandidates(t)

(***************************************************************************)
(* extraction_patterns.py: best practices and examples.                    *)
(***************************************************************************)
BestPracticeTitles == {
    <<"b", "e", "s", "t", " ", "p", "r", "a", "c", "t", "i", "c", "e">>,
    <<"r", "e", "c", "o", "m", "m", "e", "n", "d", "a", "t", "i", "o", "n">>,
    <<"g", "u", "i", "d", "e", "l", "i", "n", "e">>,
    <<"d", "o", "s", " ", "a", "n", "d", " ", "d", "o", "n", "'", "t", "s">>}

ExampleTitles == {
    <<"e", "x", "a", "m", "p", "l", "e">>, <<"s", "a", "m", "p", "l", "e">>,
    <<"d", "e", "m", "o">>, <<"u", "s", "a", "g", "e">>}

BestPracticePatterns == {
    <<"r", "e", "c", "o", "m", "m", "e", "n", "d">>,
    <<"s", "h", "o", "u", "l", "d">>, <<"m", "u", "s", "t">>,
    <<"a", "l", "w", "a", "y", "s">>, <<"n", "e", "v", "e", "r">>,
    <<"a", "v", "o", "i", "d">>,
    <<"b", "e", "s", "t", " ", "p", "r", "a", "c", "t", "i", "c", "e">>,
    <<"g", "o", "o", "d", " ", "p", "r", "a", "c", "t", "i", "c", "e">>,
    <<"d", "o", " ", "n", "o", "t">>, <<"d", "o", "n", "'", "t">>}

ExamplePatterns == {
    <<"f", "o", "r", " ", "e", "x", "a", "m", "p", "l", "e">>,
    <<"e", ".", "g", ".">>, <<"s", "u", "c", "h", " ", "a", "s">>,
    <<"l", "i", "k", "e", " ", "t", "h", "i", "s">>,
    <<"s", "a", "m", "p", "l", "e">>, <<"h", "e", "r", "e", " ", "i", "s">>,
    <<"c", "o", "n", "s", "i", "d", "e", "r">>,
    <<"i", "m", "a", "g", "i", "n", "e">>,
    <<"s", "u", "p", "p", "o", "s", "e">>}

\* needle in hay
Contains(hay, needle) ==
    \E k \in 0..(Len(hay) - Len(needle)) :
        SubSeq(hay, k + 1, k + Len(needle)) = needle

\* any(keyword in s for keyword in vocabulary)
AnyIn(vocabulary, s) == \E keyword \in vocabulary : Contains(s, keyword)

RECURSIVE JoinSpace(_)
\* " ".join(ls)
JoinSpace(ls) ==
    IF ls = <<>> THEN <<>>
    ELSE IF Len(ls) = 1 THEN ls[1]
    ELSE ls[1] \o <<" ">> \o JoinSpace(Tail(ls))

\* source_section_id=None
NoSection == <<>>

\* f"section_{i}"
SectionRef(n) == <<"section_", n>>

ExtractionItem(txt, section_id, tags, level) ==
    [text |-> txt, source_section_id |-> section_id, tags |-> tags,
     confidence_level |-> level]

BestPracticeContext == 2

ExampleContext == 3

\* the ASCII members of the class [-*...] of the list-item pattern
BulletChars == {"-", "*"}

\* ^[-*...]\s|^(\d+\.|\(\d+\))\s|^-\s
IsListItem(line) ==
    \/ Len(line) >= 2 /\ line[1] \in BulletChars /\ line[2] \in Whitespace
    \/ LET d == LeadingCount(line, Digits)
       IN  /\ d >= 1 /\ Len(line) >= d + 2
           /\ line[d + 1] = "." /\ line[d + 2] \in Whitespace
    \/ /\ Len(line) >= 4 /\ line[1] = "("
       /\ LET d == LeadingCount(Tail(line), Digits)
          IN  /\ d >= 1 /\ Len(line) >= d + 3
              /\ line[d + 2] = ")" /\ line[d + 3] \in Whitespace

RECURSIVE ItemsLoop(_, _, _, _)
\* the loop of _extract_items_from_section and its "save last item"
ItemsLoop(ls, current_item, item_type, section_id) ==
    LET saved == IF current_item = <<>> THEN <<>>
                 ELSE <<ExtractionItem(Join(current_item), section_id,
                                       <<item_type, "section_based">>, "high")>>
    IN  IF ls = <<>> THEN saved
        ELSE LET line == Strip(Head(ls))
             IN  IF IsListItem(line)
                 THEN saved \o ItemsLoop(Tail(ls), <<line>>, item_type, section_id)
                 ELSE IF line # <<>>
                 THEN ItemsLoop(Tail(ls), current_item \o <<line>>, item_type,
                                section_id)
                 ELSE ItemsLoop(Tail(ls), current_item, item_type, section_id)

_extract_items_from_section(content, item_type, section_id) ==
    ItemsLoop(Split(content), <<>>, item_type, section_id)

\* center_line counts from 0
_extract_context(ls, center_line, context_lines) ==
    LET start_line == IF center_line - context_lines < 0 THEN 0
                 ELSE center_line - context_lines
        end == IF Len(ls) < center_line + context_lines + 1 THEN Len(ls)
               ELSE center_line + context_lines + 1
        window == SubSeq(ls, start_line + 1, end)
        stripped == [k \in 1..Len(window) |-> Strip(window[k])]
    IN  Join(SelectSeq(stripped, LAMBDA l : l # <<>>))

\* re.match(r'^#{1,6}|\d+\.|\w+:$', line)
TracksSection(line) ==
    \/ Len(line) >= 1 /\ line[1] = "#"
    \/ LET d == LeadingCount(line, Digits)
       IN  d >= 1 /\ Len(line) > d /\ line[d + 1] = "."
    \/ LET w == LeadingCount(line, WordChars)
       IN  w >= 1 /\ Len(line) = w + 1 /\ line[w + 1] = ":"

\* the key of section_map for the k-th element of sections, k from 1
SectionMapId(k, section) == SectionRef(k - 1)

RECURSIVE SectionPass(_, _, _, _)
\* Pattern 1, over sections[k..]
SectionPass(secs, k, best_practices, examples) ==
    IF k > Len(secs)
    THEN [best_practices |-> best_practices, examples |-> examples]
    ELSE LET section_id == SectionMapId(k, secs[k])
             title_lower == ToLower(secs[k].title)
             content == JoinSpace(secs[k].content)
         IN  IF AnyIn(BestPracticeTitles, title_lower)
             THEN SectionPass(secs, k + 1,
                      best_practices \o _extract_items_from_section(
                          content, "best_practice", section_id),
                      examples)
             ELSE IF AnyIn(ExampleTitles, title_lower)
             THEN SectionPass(secs, k + 1, best_practices,
                      examples \o _extract_items_from_section(
                          content, "example", section_id))
             ELSE SectionPass(secs, k + 1, best_practices, examples)

RECURSIVE ContentPass(_, _, _, _, _)
\* Pattern 2, over lines[k..], k from 0 as enumerate counts
ContentPass(ls, k, current_section_id, best_practices, examples) ==
    IF k >= Len(ls)
    THEN [best_practices |-> best_practices, examples |-> examples]
    ELSE LET line == ls[k + 1]
             line_lower == Strip(ToLower(line))
             section_id == IF TracksSection(line) THEN SectionRef(k)
                           ELSE current_section_id
             item(n) == LET context == _extract_context(ls, k, n)
                        IN  IF Strip(context) = <<>> THEN <<>>
                            ELSE <<ExtractionItem(Strip(context), section_id,
                                       <<"content_pattern">>, "medium")>>
         IN  IF AnyIn(BestPracticePatterns, line_lower)
             THEN ContentPass(ls, k + 1, section_id,
                      best_practices \o item(BestPracticeContext), examples)
             ELSE IF AnyIn(ExamplePatterns, line_lower)
             THEN ContentPass(ls, k + 1, section_id, best_practices,
                      examples \o item(ExampleContext))
             ELSE ContentPass(ls, k + 1, section_id, best_practices, examples)

\* variant: the lists of the previous run are extended
KeptItemList(previous) == previous

\* best_practices = [] ; examples = []
NewItemList(previous) == <<>>

\* previous: the lists a former run returned for the same arguments
extract_best_practices_and_examples(t, secs, previous) ==
    LET by_section == SectionPass(secs, 1,
                          NewItemList(previous.best_practices),
                          NewItemList(previous.examples))
    IN  ContentPass(Split(t), 0, NoSection, by_section.best_practices,
                    by_section.examples)

(***************************************************************************)
(* converter.py: convert_to_yaml and parse_text_structure.                 *)
(***************************************************************************)
\* the sample Markdown document of tests/conftest.py, up to its code block
TextSample ==
    Join(<<<<"#", " ", "S", "a", "m", "p", "l", "e", " ", "D", "o", "c",
            "u", "m", "e", "n", "t">>,
          <<>>,
          <<"T", "h", "i", "s", " ", "i", "s", " ", "a", " ", "s", "a",
            "m", "p", "l", "e", " ", "d", "o", "c", "u", "m", "e", "n",
            "t", " ", "f", "o", "r", " ", "t", "e", "s", "t", "i", "n",
            "g", " ", "t", "h", "e", " ", "c", "o", "n", "v", "e", "r",
            "s", "i", "o", "n", " ", "p", "i", "p", "e", "l", "i", "n",
            "e", ".">>,
          <<>>,
          <<"#", "#", " ", "B", "e", "s", "t", " ", "P", "r", "a", "c",
            "t", "i", "c", "e", "s">>,
          <<>>,
          <<"-", " ", "A", "l", "w", "a", "y", "s", " ", "t", "e", "s",
            "t", " ", "y", "o", "u", "r", " ", "c", "o", "d", "e">>,
          <<"-", " ", "U", "s", "e", " ", "m", "e", "a", "n", "i", "n",
            "g", "f", "u", "l", " ", "v", "a", "r", "i", "a", "b", "l",
            "e", " ", "n", "a", "m", "e", "s">>,
          <<"-", " ", "W", "r", "i", "t", "e", " ", "d", "o", "c", "u",
            "m", "e", "n", "t", "a", "t", "i", "o", "n">>,
          <<>>,
          <<"#", "#", " ", "E", "x", "a", "m", "p", "l", "e", "s">>,
          <<>>,
          <<"H", "e", "r", "e", "'", "s", " ", "a", "n", " ", "e", "x",
            "a", "m", "p", "l", "e", " ", "o", "f", " ", "h", "o", "w",
            " ", "t", "o", " ", "u", "s", "e", " ", "t", "h", "e", " ",
            "A", "P", "I", ":">>,
          <<>>>>)

\* "intro", "# Guide", "You must test."
TextGuide ==
    Join(<<<<"i", "n", "t", "r", "o">>,
          <<"#", " ", "G", "u", "i", "d", "e">>,
          <<"Y", "o", "u", " ", "m", "u", "s", "t", " ", "t", "e", "s",
            "t", ".">>>>)

\* "# A", "## B", "## Usage", "run it"
TextUsage ==
    Join(<<<<"#", " ", "A">>,
          <<"#", "#", " ", "B">>,
          <<"#", "#", " ", "U", "s", "a", "g", "e">>,
          <<"r", "u", "n", " ", "i", "t">>>>)

\* "Note:", "always run tests", "e.g. nightly"
TextNote ==
    Join(<<<<"N", "o", "t", "e", ":">>,
          <<"a", "l", "w", "a", "y", "s", " ", "r", "u", "n", " ", "t",
            "e", "s", "t", "s">>,
          <<"e", ".", "g", ".", " ", "n", "i", "g", "h", "t", "l", "y">>>>)

\* "# Api Notes", "Call parse_text or Http2 first"
TextTerms ==
    Join(<<<<"#", " ", "A", "p", "i", " ", "N", "o", "t", "e", "s">>,
          <<"C", "a", "l", "l", " ", "p", "a", "r", "s", "e", "_", "t",
            "e", "x", "t", " ", "o", "r", " ", "H", "t", "t", "p", "2",
            " ", "f", "i", "r", "s", "t">>>>)

AnnotationTexts == {TextSample, TextGuide, TextUsage, TextNote, TextTerms}

MaxDocLines == 2

DocInputs ==
    {Join(ls) : ls \in UNION {[1..n -> LinePool] : n \in 0..MaxDocLines}}
        \cup Scenarios \cup AnnotationTexts

Callers == {"convert_to_yaml", "parse_text_structure"}

\* variant: the test for an empty text is missing
NotTextNever(t) == FALSE

\* not text
NotText(t) == t = <<>>

\* the keywords and the two item lists of one annotation of text and
\* sections; previous: the lists of a former annotation, <<>> when none
Annotation(t, secs, e, previous) ==
    LET former == IF previous = <<>>
                  THEN [best_practices |-> <<>>, examples |-> <<>>]
                  ELSE previous[1]
        items == extract_best_practices_and_examples(t, secs, former)
    IN  [keywords |-> extract_keywords(t, e).keywords,
         best_practices |-> items.best_practices,
         examples |-> items.examples]

\* DocumentStructure(metadata=..., content=..., analysis=...): the section
\* dictionaries are validated into Section objects, by value
DocumentStructure(t, secs, heap, analysis) ==
    [metadata |-> [source |-> converter, converted_by |-> "Janusz v1.1.0"],
     content |-> [sections |-> Returned(secs, heap), raw_text |-> t],
     analysis |-> analysis]

InitDoc ==
    /\ text \in DocInputs
    /\ caller \in Callers
    /\ IF caller = "convert_to_yaml"
       THEN NoParse /\ pc = "convert"
       ELSE LoopInit
    /\ NoCalls
    /\ NoKeywords
    /\ env = [spacy |-> "ok", nltk |-> "ok", found |-> "nothing"]
    /\ doc = <<>>
    /\ analysis2 = <<>>
    /\ result = "none"
    /\ yaml_written = FALSE
    /\ log = ""
    /\ NoAux

\* lines 412-415: nothing was extracted from the file
NoContent ==
    /\ pc = "convert"
    /\ NotText(text)
    /\ log' = "No text extracted"
    /\ result' = "False"
    /\ pc' = "returned"
    /\ UNCHANGED <<text, lines, i, sections, section_stack, current_content,
                   nodes, flat, callvars, aux, kwvars, caller, env, doc, analysis2,
                   yaml_written>>

\* line 418 down to the entry of the loop of _parse_hierarchical_sections
BeginParse ==
    /\ pc = "convert"
    /\ ~NotText(text)
    /\ lines' = Split(text)
    /\ i' = 1
    /\ sections' = EmptyList(sections)
    /\ section_stack' = EmptyList(section_stack)
    /\ current_content' = EmptyList(current_content)
    /\ pc' = "loop"
    /\ UNCHANGED <<text, nodes, flat, others>>

\* lines 201-228 of parse_text_structure, on the host the call meets; an
\* exception that leaves extract_keywords leaves parse_text_structure too
Annotate ==
    /\ pc = "done"
    /\ caller \in Callers
    /\ doc = <<>>
    /\ \E e \in Environments :
          LET keywords == extract_keywords(text, e)
          IN  /\ env' = e
              /\ strategy' = IF text = <<>> \/ Strip(text) = <<>> THEN "none"
                             ELSE StrategyOf(e)
              /\ candidates' = CandidatesOf(text, e)
              /\ unique_keywords' = keywords.keywords
              /\ IF keywords.raised
                 THEN /\ pc' = "raised"
                      /\ doc' = doc
                 ELSE /\ pc' = "parsed"
                      /\ doc' = <<DocumentStructure(text, flat, nodes,
                                      Annotation(text, flat, e, <<>>))>>
    /\ UNCHANGED <<text, lines, i, sections, section_stack, current_content,
                   nodes, flat, callvars, aux, caller, analysis2, result,
                   yaml_written, log>>

\* extract_keywords and extract_best_practices_and_examples are called once
\* more on the same text and sections
Reannotate ==
    /\ pc = "parsed"
    /\ analysis2 = <<>>
    /\ analysis2' = <<Annotation(text, flat, env, <<doc[1].analysis>>)>>
    /\ UNCHANGED <<text, lines, i, sections, section_stack, current_content,
                   nodes, flat, pc, callvars, aux, kwvars, caller, env, doc, result,
                   yaml_written, log>>

\* lines 421-433: the document is dumped and the YAML file written
WriteYaml ==
    /\ pc = "parsed"
    /\ caller = "convert_to_yaml"
    /\ yaml_written' = TRUE
    /\ log' = "Successfully converted"
    /\ result' = "True"
    /\ pc' = "returned"
    /\ UNCHANGED <<text, lines, i, sections, section_stack, current_content,
                   nodes, flat, callvars, aux, kwvars, caller, env, doc, analysis2>>

\* lines 435-437: an exception of the parse, of the dump or of the write
ConvertFails ==
    /\ pc \in {"parsed", "raised"}
    /\ caller = "convert_to_yaml"
    /\ log' = "Error converting"
    /\ result' = "False"
    /\ pc' = "returned"
    /\ UNCHANGED <<text, lines, i, sections, section_stack, current_content,
                   nodes, flat, callvars, aux, kwvars, caller, env, doc, analysis2,
                   yaml_written>>

NextDoc ==
    \/ Next
    \/ NoContent
    \/ BeginParse
    \/ Annotate
    \/ Reannotate
    \/ WriteYaml
    \/ ConvertFails

SpecDoc == InitDoc /\ [][NextDoc]_vars

(***************************************************************************)
(* converter.py: the construction of a UniversalToYAMLConverter.           *)
(***************************************************************************)
SUPPORTED_EXTENSIONS == {
    <<".", "p", "d", "f">>, <<".", "m", "d">>, <<".", "t", "x", "t">>,
    <<".", "d", "o", "c", "x">>, <<".", "h", "t", "m", "l">>}

Greatest(S) == CHOOSE k \in S : \A j \in S : j <= k

\* the final component of a path
Name(path) ==
    LET slashes == {k \in 1..Len(path) : path[k] = "/"}
    IN  IF slashes = {} THEN path
        ELSE SubSeq(path, Greatest(slashes) + 1, Len(path))

\* PurePath.suffix: the last dot of the name and what follows it, when the
\* dot is neither the first nor the last character of the name
Suffix(path) ==
    LET name == Name(path)
        dots == {k \in 1..Len(name) : name[k] = "."}
    IN  IF dots = {} \/ Greatest(dots) = 1 \/ Greatest(dots) = Len(name) THEN <<>>
        ELSE SubSeq(name, Greatest(dots), Len(name))

\* ext_to_type.get(self.extension, "unknown")
ext_to_type(ext) ==
    IF ext = <<".", "p", "d", "f">> THEN "pdf"
    ELSE IF ext = <<".", "m", "d">> THEN "markdown"
    ELSE IF ext = <<".", "t", "x", "t">> THEN "text"
    ELSE IF ext = <<".", "d", "o", "c", "x">> THEN "docx"
    ELSE IF ext = <<".", "h", "t", "m", "l">> THEN "html"
    ELSE "unknown"

Stems == {
    <<"d", "o", "c">>,
    <<"d", "i", "r", ".", "d", "/", "n", "o", "t", "e", "s">>,
    <<"a", "r", "c", "h", "i", "v", "e", ".", "t", "a", "r">>,
    <<".", "h", "i", "d", "d", "e", "n">>,
    <<"a", "/", "b", ".", "c", "/", "R", "E", "P", "O", "R", "T">>}

Endings == {
    <<".", "p", "d", "f">>, <<".", "m", "d">>, <<".", "t", "x", "t">>,
    <<".", "d", "o", "c", "x">>, <<".", "h", "t", "m", "l">>,
    <<".", "r", "t", "f">>, <<".", "e", "p", "u", "b">>,
    <<".", "x", "y", "z">>, <<".", "y", "a", "m", "l">>,
    <<".", "P", "D", "F">>, <<".", "M", "d">>, <<".", "E", "p", "u", "b">>,
    <<".">>, <<>>}

Paths == {stem \o ending : stem \in Stems, ending \in Endings}

InitNew ==
    /\ file_path \in Paths
    /\ extension = <<>>
    /\ file_type = ""
    /\ text = <<>>
    /\ NoParse
    /\ NoCalls
    /\ NoKeywords
    /\ caller = "__init__"
    /\ env = [spacy |-> "ok", nltk |-> "ok", found |-> "nothing"]
    /\ doc = <<>>
    /\ analysis2 = <<>>
    /\ result = "none"
    /\ yaml_written = FALSE
    /\ log = ""
    /\ NoToon
    /\ NoRag
    /\ pc = "new"

\* self.extension in self.SUPPORTED_EXTENSIONS
Accepts(ext) == ext \in SUPPORTED_EXTENSIONS

\* lines 40-49: __init__ returns or raises ValueError
Construct ==
    /\ pc = "new"
    /\ extension' = ToLower(Suffix(file_path))
    /\ pc' = IF Accepts(extension') THEN "constructed" ELSE "ValueError"
    /\ log' = IF Accepts(extension') THEN log ELSE "Unsupported file format"
    /\ UNCHANGED <<text, lines, i, sections, section_stack, current_content,
                   nodes, flat, callvars, kwvars, caller, env, doc, analysis2,
                   result, yaml_written, file_path, file_type, toonvars, ragvars>>

\* lines 51-60
DetectFileType ==
    /\ pc = "constructed"
    /\ file_type' = ext_to_type(extension)
    /\ pc' = "typed"
    /\ UNCHANGED <<text, lines, i, sections, section_stack, current_content,
                   nodes, flat, callvars, kwvars, docvars, file_path,
                   extension, toonvars, ragvars>>

NextNew == Construct \/ DetectFileType

SpecNew == InitNew /\ [][NextNew]_vars

(***************************************************************************)
(* toon_adapter.py and json_to_toon.py: convert() and convert_directory.   *)
(***************************************************************************)
MaxFiles == 2

Kinds == {"yaml", "json"}

\* the source file, the temporary JSON file and the TOON file of source f
Source(k, f) == <<f, k>>

json_temp_path(f) == <<f, "temp.json">>

toon_path(f) == <<f, "toon">>

\* one step of convert() with how it ended
Call(step, outcome) == [step |-> step, outcome |-> outcome]

\* how the first step can end: the YAML file is loaded and dumped as JSON,
\* or it cannot be read or parsed, or the temporary file is opened and
\* json.dump raises; the JSON file is well-formed, or is not
FirstOutcomes(k) ==
    IF k = "yaml" THEN {"ok", "load_fails", "dump_fails"}
    ELSE {"ok", "invalid"}

\* how subprocess.run of the encode can end
EncodeOutcomes == {"ok", "CalledProcessError", "FileNotFoundError", "PermissionError"}

\* what json_to_toon does with the outcome: True, False, or the exception
\* goes on to the caller
json_to_toon(outcome) ==
    IF outcome = "ok" THEN "True"
    ELSE IF outcome \in {"CalledProcessError", "FileNotFoundError"} THEN "False"
    ELSE "raised"

\* variant: convert() has no handler of its own
Uncaught(outcome) == "raised"

\* except Exception of convert(): return False
Caught(outcome) == "False"

\* variant: the temporary file is left where it is
UnlinkNothing(files, f) == files

\* self.json_temp_path.unlink()
Unlink(files, f) == files \ {f}

InitToon ==
    /\ kind \in Kinds
    /\ \E n \in 1..MaxFiles :
          /\ queue = [k \in 1..n |-> k]
          /\ fs = {Source(kind, f) : f \in 1..n}
    /\ cur = 0
    /\ calls = <<>>
    /\ ret = "none"
    /\ successful = 0
    /\ failed = 0
    /\ NoPath
    /\ NoRag
    /\ text = <<>>
    /\ NoParse
    /\ NoCalls
    /\ NoKeywords
    /\ caller = "convert_directory"
    /\ env = [spacy |-> "ok", nltk |-> "ok", found |-> "nothing"]
    /\ doc = <<>>
    /\ analysis2 = <<>>
    /\ result = "none"
    /\ yaml_written = FALSE
    /\ log = ""
    /\ pc = "next_file"

\* what no step of the TOON converters touches
untouched == <<text, lines, i, sections, section_stack, current_content,
               nodes, flat, callvars, kwvars, docvars, newvars, ragvars>>

\* the loop of convert_directory takes the next file and calls convert()
StartConvert ==
    /\ pc = "next_file"
    /\ queue # <<>>
    /\ cur' = Head(queue)
    /\ queue' = Tail(queue)
    /\ calls' = <<>>
    /\ ret' = "none"
    /\ pc' = "first_step"
    /\ UNCHANGED <<kind, fs, successful, failed, untouched>>

\* step 1 of convert(): yaml_to_json, respectively validate_json
FirstStep ==
    /\ pc = "first_step"
    /\ \E outcome \in FirstOutcomes(kind) :
          /\ calls' = Append(calls, Call(IF kind = "yaml" THEN "yaml_to_json"
                                         ELSE "validate_json", outcome))
          /\ fs' = IF kind = "yaml" /\ outcome \in {"ok", "dump_fails"}
                   THEN fs \cup {json_temp_path(cur)}
                   ELSE fs
          /\ IF outcome = "ok"
             THEN pc' = "encode" /\ ret' = ret
             ELSE pc' = "convert_returned" /\ ret' = "False"
    /\ UNCHANGED <<kind, queue, cur, successful, failed, untouched>>

\* step 2 of convert(): json_to_toon runs the encode
Encode ==
    /\ pc = "encode"
    /\ \E outcome \in EncodeOutcomes :
          /\ calls' = Append(calls, Call("encode", outcome))
          /\ fs' = IF outcome = "ok" THEN fs \cup {toon_path(cur)} ELSE fs
          /\ IF json_to_toon(outcome) = "True"
             THEN pc' = "stats" /\ ret' = ret
             ELSE /\ pc' = "convert_returned"
                  /\ ret' = IF json_to_toon(outcome) = "False" THEN "False"
                            ELSE Caught(outcome)
    /\ UNCHANGED <<kind, queue, cur, successful, failed, untouched>>

\* step 3 of convert(): get_token_stats returns the statistics or None;
\* the JSON converter then returns True
TokenStats ==
    /\ pc = "stats"
    /\ \E outcome \in {"ok", "None"} :
          calls' = Append(calls, Call("get_token_stats", outcome))
    /\ IF kind = "yaml"
       THEN pc' = "cleanup" /\ ret' = ret
       ELSE pc' = "convert_returned" /\ ret' = "True"
    /\ UNCHANGED <<kind, queue, cur, fs, successful, failed, untouched>>

\* step 4 of the YAML converter: the temporary file is removed, or unlink
\* raises; then convert() returns
CleanUp ==
    /\ pc = "cleanup"
    /\ IF json_temp_path(cur) \notin fs
       THEN calls' = calls /\ fs' = fs /\ ret' = "True"
       ELSE \E outcome \in {"ok", "OSError"} :
               /\ calls' = Append(calls, Call("unlink", outcome))
               /\ IF outcome = "ok"
                  THEN fs' = Unlink(fs, json_temp_path(cur)) /\ ret' = "True"
                  ELSE fs' = fs /\ ret' = Caught(outcome)
    /\ pc' = "convert_returned"
    /\ UNCHANGED <<kind, queue, cur, successful, failed, untouched>>

\* convert_directory counts the file and goes on
Tally ==
    /\ pc = "convert_returned"
    /\ ret \in {"True", "False"}
    /\ successful' = IF ret = "True" THEN successful + 1 ELSE successful
    /\ failed' = IF ret = "False" THEN failed + 1 ELSE failed
    /\ pc' = "next_file"
    /\ UNCHANGED <<kind, queue, cur, fs, calls, ret, untouched>>

NextToon ==
    \/ StartConvert
    \/ FirstStep
    \/ Encode
    \/ TokenStats
    \/ CleanUp
    \/ Tally

SpecToon == InitToon /\ [][NextToon]_vars

(***************************************************************************)
(* rag/embeddings.py: TextChunker.chunk_text and embed_document.           *)
(***************************************************************************)
MaxTextLen == 5

MaxChunkSize == 4

\* iterations of the loop of chunk_text that are followed
MaxChunks == 7

\* EmbeddingConfig.chunk_size and chunk_overlap, the defaults of TextChunker
DefaultChunkSize == 1000

DefaultOverlap == 200

\* "Look for sentence endings in the last 100 chars"
SentenceWindow == 100

sentence_markers == << <<".", " ">>, <<"!", " ">>, <<"?", " ">>, <<"\n", "\n">> >>

ChunkAlphabet == {"a", ".", " "}

ChunkTexts == UNION {[1..n -> ChunkAlphabet] : n \in 0..MaxTextLen}

\* a text longer than the default chunk size, without a sentence ending
LongText == [k \in 1..(DefaultChunkSize + 1) |-> "a"]

\* text.rfind(marker, lo, hi) with 0 <= lo and hi <= len(text): the highest
\* 0-based position of marker within text[lo:hi], or -1
rfind(t, marker, lo, hi) ==
    LET hits == {p \in lo..(hi - Len(marker)) :
                    \A j \in 1..Len(marker) : t[p + j] = marker[j]}
    IN  IF hits = {} THEN -1 ELSE Greatest(hits)

\* the position after the last occurrence of the first marker that occurs;
\* 0 stands for None (both are false in "if sentence_end")
_find_sentence_end(t, lo, hi) ==
    LET present == {m \in 1..Len(sentence_markers) :
                       rfind(t, sentence_markers[m], lo, hi) # -1}
    IN  IF present = {} THEN 0
        ELSE LET m == CHOOSE x \in present : \A y \in present : x <= y
             IN  rfind(t, sentence_markers[m], lo, hi) + Len(sentence_markers[m])

\* text[a:b] of Python: a negative bound counts from the end
SliceBound(t, a) ==
    IF a < 0 THEN (IF Len(t) + a < 0 THEN 0 ELSE Len(t) + a)
    ELSE IF a > Len(t) THEN Len(t) ELSE a

Slice(t, a, b) == SubSeq(t, SliceBound(t, a) + 1, SliceBound(t, b))

Chunk(t, s, e, id) == [text |-> t, start |-> s, end |-> e, chunk_id |-> id]

\* the end of the chunk that starts at s
ChunkEnd(t, s, size) ==
    LET end == IF s + size < Len(t) THEN s + size ELSE Len(t)
        search_start == IF end - SentenceWindow > s + (size \div 2)
                        THEN end - SentenceWindow
                        ELSE s + (size \div 2)
        sentence_end == _find_sentence_end(t, search_start, end)
    IN  IF end < Len(t) /\ sentence_end # 0 THEN sentence_end ELSE end

\* "Move start position with overlap"
NextStart(end, ov) == end - ov

InitChunk ==
    /\ \/ /\ chunk_size \in 1..MaxChunkSize
          /\ overlap \in 0..(chunk_size - 1)
          /\ text \in ChunkTexts
       \/ /\ chunk_size = DefaultChunkSize
          /\ overlap = DefaultOverlap
          /\ text = LongText
    /\ start = 0
    /\ chunk_id = 0
    /\ chunks = <<>>
    /\ NoStore
    /\ NoPath
    /\ NoToon
    /\ NoParse
    /\ NoCalls
    /\ NoKeywords
    /\ caller \in {"chunk_text", "embed_document"}
    /\ env = [spacy |-> "ok", nltk |-> "ok", found |-> "nothing"]
    /\ doc = <<>>
    /\ analysis2 = <<>>
    /\ result = "none"
    /\ yaml_written = FALSE
    /\ log = ""
    /\ pc = caller

\* what the chunker never touches
unchunked == <<text, lines, i, sections, section_stack, current_content,
               nodes, flat, callvars, kwvars, docvars, newvars, toonvars,
               storevars, chunk_size, overlap>>

\* embed_document(content, chunk=True): a long content is chunked, a short
\* one is embedded as a single piece
EmbedDocument ==
    /\ pc = "embed_document"
    /\ IF Len(text) > chunk_size
       THEN pc' = "chunk_text" /\ chunks' = chunks
       ELSE /\ pc' = "embedded"
            /\ chunks' = <<Chunk(text, 0, Len(text), 0)>>
    /\ UNCHANGED <<start, chunk_id, unchunked>>

\* chunk_text up to its loop
ChunkText ==
    /\ pc = "chunk_text"
    /\ IF Len(text) <= chunk_size
       THEN /\ chunks' = <<Chunk(text, 0, Len(text), 0)>>
            /\ pc' = "chunked"
       ELSE /\ chunks' = <<>>
            /\ pc' = "while"
    /\ start' = 0
    /\ chunk_id' = 0
    /\ UNCHANGED unchunked

\* one iteration of "while start < len(text)"
WhileBody ==
    /\ pc = "while"
    /\ start < Len(text)
    /\ Len(chunks) < MaxChunks
    /\ LET end == ChunkEnd(text, start, chunk_size)
       IN  /\ chunks' = Append(chunks, Chunk(Slice(text, start, end), start, end,
                                             chunk_id))
           /\ start' = NextStart(end, overlap)
    /\ chunk_id' = chunk_id + 1
    /\ UNCHANGED <<pc, unchunked>>

\* the loop ends and chunk_text returns the chunks
WhileExit ==
    /\ pc = "while"
    /\ ~(start < Len(text))
    /\ pc' = "chunked"
    /\ UNCHANGED <<chunkvars, unchunked>>

\* embed_document embeds the chunks chunk_text returned
EmbedChunks ==
    /\ pc = "chunked"
    /\ caller = "embed_document"
    /\ pc' = "embedded"
    /\ UNCHANGED <<chunkvars, unchunked>>

NextChunk ==
    \/ EmbedDocument
    \/ ChunkText
    \/ WhileBody
    \/ WhileExit
    \/ EmbedChunks

SpecChunk == InitChunk /\ [][NextChunk]_vars

(***************************************************************************)
(* rag/vector_store.py: FAISSVectorStore without an index file.            *)
(***************************************************************************)
\* vectors the index holds at most
MaxVectors == 3

\* documents of one add_documents call at most
MaxBatch == 2

\* search(query_embedding, top_k=5)
DefaultTopK == 5

\* doc.embedding is None
None == <<>>

\* embeddings of dimension 2
Embeddings == {<<1, 0>>, <<0, 1>>, <<1, 1>>}

\* the ids callers give; "" stands for no id
DocIds == {"a", "b", ""}

\* the ids uuid.uuid4() produces
Uuids == {"u1", "u2"}

VectorDocument(id, embedding) == [id |-> id, embedding |-> embedding]

Batches ==
    UNION {[1..n -> {VectorDocument(id, e) : id \in DocIds,
                                            e \in Embeddings \cup {None}}] :
           n \in 0..MaxBatch}

\* list(self.doc_store.keys())
Keys(store) == [k \in 1..Len(store) |-> store[k].id]

HasKey(store, id) == \E k \in 1..Len(store) : store[k].id = id

\* self.doc_store[doc.id] = doc: a key that is present keeps its place
SetItem(store, d) ==
    IF HasKey(store, d.id)
    THEN [k \in 1..Len(store) |-> IF store[k].id = d.id THEN d ELSE store[k]]
    ELSE Append(store, d)

\* del self.doc_store[doc_id]
DelItem(store, id) == SelectSeq(store, LAMBDA d : d.id # id)

\* str(uuid.uuid4()): an id no document has
FreshId(store) == CHOOSE u \in Uuids : ~HasKey(store, u)

\* the loop of add_documents: the store after it and the embeddings collected
RECURSIVE AddLoop(_, _, _)
AddLoop(store, embeddings, documents) ==
    IF documents = <<>> THEN [store |-> store, embeddings |-> embeddings]
    ELSE LET d == Head(documents)
         IN  IF d.embedding = None
             THEN AddLoop(store, embeddings, Tail(documents))
             ELSE LET id == IF d.id = "" THEN FreshId(store) ELSE d.id
                  IN  AddLoop(SetItem(store, VectorDocument(id, d.embedding)),
                              Append(embeddings, d.embedding), Tail(documents))

\* uuid4 can still give an id for every document of the batch without one
EnoughUuids(store, documents) ==
    Cardinality({k \in 1..Len(documents) :
                    documents[k].id = "" /\ documents[k].embedding # None})
        <= Cardinality({u \in Uuids : ~HasKey(store, u)})

\* inner product of IndexFlatIP
Score(u, v) == u[1] * v[1] + u[2] * v[2]

\* index.search(query, k): 0-based positions of k vectors of highest score,
\* best first; the order among equal scores is the library's
TopK(vectors, q, k) ==
    {s \in [1..k -> 0..(Len(vectors) - 1)] :
        /\ \A a, b \in 1..k : a < b =>
              /\ s[a] # s[b]
              /\ Score(vectors[s[a] + 1], q) >= Score(vectors[s[b] + 1], q)
        /\ \A j \in 0..(Len(vectors) - 1) :
              (\A a \in 1..k : s[a] # j) =>
                  Score(vectors[j + 1], q) <= Score(vectors[s[k] + 1], q)}

\* the (doc_id, score) pairs of search, each with the position idx of the
\* vector that matched
Hits(store, vectors, q, s) ==
    LET kept == SelectSeq(s, LAMBDA idx : idx < Len(store))
    IN  [k \in 1..Len(kept) |->
            [doc_id |-> Keys(store)[kept[k] + 1],
             score |-> Score(vectors[kept[k] + 1], q),
             idx |-> kept[k]]]

\* _rebuild_index
_rebuild_index(store, vectors) ==
    IF store = <<>> THEN <<>>
    ELSE [k \in 1..Len(store) |-> store[k].embedding]

InitStore ==
    /\ index = <<>>
    /\ doc_store = <<>>
    /\ results = <<>>
    /\ NoChunks
    /\ NoPath
    /\ NoToon
    /\ text = <<>>
    /\ NoParse
    /\ NoCalls
    /\ NoKeywords
    /\ caller = "FAISSVectorStore"
    /\ env = [spacy |-> "ok", nltk |-> "ok", found |-> "nothing"]
    /\ doc = <<>>
    /\ analysis2 = <<>>
    /\ result = "none"
    /\ yaml_written = FALSE
    /\ log = ""
    /\ pc = "store"

StoreReady == caller = "FAISSVectorStore"

\* what the vector store never touches
unstored == <<text, lines, i, sections, section_stack, current_content,
              nodes, flat, callvars, kwvars, docvars, newvars, toonvars,
              chunkvars>>

add_documents ==
    /\ StoreReady
    /\ \E documents \in Batches :
          /\ Len(index) + Len(documents) <= MaxVectors
          /\ EnoughUuids(doc_store, documents)
          /\ LET after == AddLoop(doc_store, <<>>, documents)
             IN  /\ doc_store' = after.store
                 /\ index' = index \o after.embeddings
    /\ results' = <<>>
    /\ pc' = "added"
    /\ UNCHANGED unstored

search ==
    /\ StoreReady
    /\ \E query_embedding \in Embeddings, top_k \in {1, DefaultTopK} :
          IF Len(index) = 0 THEN results' = <<>>
          ELSE \E s \in TopK(index, query_embedding,
                             IF top_k < Len(index) THEN top_k ELSE Len(index)) :
                  results' = Hits(doc_store, index, query_embedding, s)
    /\ pc' = "searched"
    /\ UNCHANGED <<index, doc_store, unstored>>

delete_document ==
    /\ StoreReady
    /\ \E doc_id \in (DocIds \ {""}) \cup Uuids :
          IF ~HasKey(doc_store, doc_id)
          THEN UNCHANGED <<index, doc_store>>
          ELSE /\ doc_store' = DelItem(doc_store, doc_id)
               /\ index' = _rebuild_index(DelItem(doc_store, doc_id), index)
    /\ results' = <<>>
    /\ pc' = "deleted"
    /\ UNCHANGED unstored

clear ==
    /\ StoreReady
    /\ doc_store' = <<>>
    /\ index' = <<>>
    /\ results' = <<>>
    /\ pc' = "cleared"
    /\ UNCHANGED unstored

NextStore ==
    \/ add_documents
    \/ search
    \/ delete_document
    \/ clear

SpecStore == InitStore /\ [][NextStore]_vars

(***************************************************************************)
(* Vocabulary of the properties: the input seen as headings and the lines  *)
(* between them, and the tree seen through the heap.                       *)
(***************************************************************************)
IsHeadingLine(raw) ==
    LET line == Strip(raw)
    IN  line # <<>> /\ (header_match(line) \/ numbered_match(line)
                            \/ caps_match(line))

\* positions of the heading lines of the input
HeadingPositions == {k \in 1..Len(lines) : IsHeadingLine(lines[k])}

NumHeadings == Cardinality(HeadingPositions)

\* position of the n-th heading line
HeadingAt(n) ==
    CHOOSE k \in HeadingPositions :
        Cardinality({j \in HeadingPositions : j <= k}) = n

\* position that ends the body of the n-th heading
BodyEnd(n) == IF n < NumHeadings THEN HeadingAt(n + 1) ELSE Len(lines) + 1

\* the stripped lines between the n-th heading and the next one
Body(n) ==
    [k \in 1..(BodyEnd(n) - HeadingAt(n) - 1) |-> Strip(lines[HeadingAt(n) + k])]

\* the stripped lines before the first heading
Preamble ==
    LET e == IF NumHeadings = 0 THEN Len(lines) + 1 ELSE HeadingAt(1)
    IN  [k \in 1..(e - 1) |-> Strip(lines[k])]

NonBlank(ls) == SelectSeq(ls, LAMBDA l : l # <<>>)

\* a sequence of lines without its leading and trailing runs of blank lines
TrimBlank(ls) ==
    LET a == LeadingCount(ls, {<<>>})
    IN  IF a = Len(ls) THEN <<>>
        ELSE SubSeq(ls, a + 1, Len(ls) - TrailingCount(ls, {<<>>}))

\* level and title a heading line stands for
LevelOfLine(raw) ==
    IF header_match(Strip(raw)) THEN LeadingCount(Strip(raw), {"#"}) ELSE 1

TitleOfLine(raw) ==
    IF header_match(Strip(raw)) THEN HeaderTitle(Strip(raw)) ELSE Strip(raw)

Range(sq) == {sq[k] : k \in 1..Len(sq)}

IsRoot(n) == n \in Range(sections)

Parents(n) == {p \in 1..Len(nodes) : n \in Range(nodes[p].subsections)}

Increasing(sq) == \A j, k \in 1..Len(sq) : j < k => sq[j] < sq[k]

Max(S) == CHOOSE x \in S : \A y \in S : y <= x

Done == pc = "done"

\* some heading precedes line k, so a section is open when it is read
OpenBefore(k) == \E j \in HeadingPositions : j < k

\* the line processed by the last step of the loop
LastLine == Strip(lines[i - 1])

(***************************************************************************)
(* C1 (as stated): the ids of the sections of one structuring call are     *)
(* section_<n> with n strictly increasing in heading order, so no two      *)
(* sections share an id, nested sections included.                         *)
(***************************************************************************)
C1_IdsStrictlyIncrease ==
    Done =>
        /\ \A k \in 1..Len(flat) : flat[k].id[1] = "section_"
        /\ \A j, k \in 1..Len(flat) : j < k => flat[j].id[2] < flat[k].id[2]

(***************************************************************************)
(* C2: every section of level L is nested under the most recent preceding  *)
(* section of level < L, and is root-level when there is none; nested and  *)
(* root lists are in document order; for "# A", "## B", "## C", "# D" the  *)
(* roots are A and D, A holds B and C, B and D hold nothing.               *)
(***************************************************************************)
C2_NestingRule ==
    /\ \A n \in 1..Len(nodes) :
          LET lower == {m \in 1..(n - 1) : nodes[m].level < nodes[n].level}
          IN  IF lower = {}
              THEN IsRoot(n) /\ Parents(n) = {}
              ELSE ~IsRoot(n) /\ Parents(n) = {Max(lower)}
    /\ Increasing(sections)
    /\ \A n \in 1..Len(nodes) : Increasing(nodes[n].subsections)
    /\ (text = TextABCD /\ Done) =>
          /\ Len(nodes) = 4
          /\ sections = <<1, 4>>
          /\ nodes[1].subsections = <<2, 3>>
          /\ nodes[2].subsections = <<>>
          /\ nodes[4].subsections = <<>>
          /\ [n \in 1..4 |-> nodes[n].title] = <<<<"A">>, <<"B">>, <<"C">>, <<"D">>>>

C2_Witness ==
    /\ text = TextABCD
    /\ Done
    /\ nodes[1].subsections = <<2, 3>>

(***************************************************************************)
(* C3: a nested section's level is strictly greater than the level of the  *)
(* section it is nested under; a heading of the level of the top of the    *)
(* stack becomes its sibling, so "## X", "## Y" gives two root sections.   *)
(***************************************************************************)
C3_ChildLevelGreater ==
    /\ \A p \in 1..Len(nodes) : \A c \in Range(nodes[p].subsections) :
          nodes[c].level > nodes[p].level
    /\ \A n \in 2..Len(nodes) :
          nodes[n].level = nodes[n - 1].level =>
              /\ n \notin Range(nodes[n - 1].subsections)
              /\ Parents(n) = Parents(n - 1)
              /\ IsRoot(n) <=> IsRoot(n - 1)
    /\ (text = TextXY /\ Done) => sections = <<1, 2>>

C3_Witness ==
    /\ text = TextXY
    /\ Done
    /\ Len(nodes) = 2
    /\ nodes[1].level = 2 /\ nodes[2].level = 2

(***************************************************************************)
(* C4: the flattened list has one entry per heading line, in the order of  *)
(* the heading lines (parent, then its nested sections, then the next      *)
(* sibling), and starts with the first root-level section.                 *)
(***************************************************************************)
C4_FlatIsHeadingOrder ==
    Done =>
        /\ Len(flat) = NumHeadings
        /\ Len(nodes) = NumHeadings
        /\ \A k \in 1..Len(flat) :
              /\ flat[k] = FlatSection(nodes[k])
              /\ flat[k].title = TitleOfLine(lines[HeadingAt(k)])
              /\ flat[k].level = LevelOfLine(lines[HeadingAt(k)])
        /\ flat # <<>> => flat[1] = FlatSection(nodes[sections[1]])

C4_Witness ==
    /\ Done
    /\ Len(flat) = 4
    /\ Len(sections) = 2
    /\ flat[2].level > flat[1].level
    /\ flat[3].level > flat[2].level
    /\ flat[4].level = 1
    /\ flat[4].title # flat[1].title

(***************************************************************************)
(* C5 (as stated): a section's content is the lines between its heading    *)
(* and the next heading with the leading and trailing blank runs removed   *)
(* and every internal blank line kept as an empty string; for "# A",       *)
(* "line1", "", "line2", "## B", "line3" the content of A is               *)
(* ["line1", "", "line2"] and that of B is ["line3"].                      *)
(***************************************************************************)
C5_InternalBlanksKept ==
    Done =>
        /\ \A n \in 1..Len(nodes) : nodes[n].content = TrimBlank(Body(n))
        /\ text = TextContent =>
              /\ Len(nodes) = 2
              /\ nodes[1].content = <<<<"l", "i", "n", "e", "1">>, <<>>,
                                     <<"l", "i", "n", "e", "2">>>>
              /\ nodes[2].content = <<<<"l", "i", "n", "e", "3">>>>

(***************************************************************************)
(* C6 (as stated): the lines before the first heading are held by a        *)
(* leading section that is nested under no heading's section, and a text   *)
(* with non-blank lines but no heading yields exactly one section holding  *)
(* all of its lines.                                                       *)
(***************************************************************************)
C6_PreambleRetained ==
    (Done /\ NonBlank(Preamble) # <<>>) =>
        /\ flat # <<>>
        /\ IsRoot(1)
        /\ Parents(1) = {}
        /\ SubSeq(nodes[1].content, 1, Len(NonBlank(Preamble)))
               = NonBlank(Preamble)
        /\ NumHeadings = 0 => Len(flat) = 1

(***************************************************************************)
(* C7 (as stated): numbered lines under an open section are content of     *)
(* that section and start no section; for "# Intro", "", "Hello", "",      *)
(* "## Setup", "", "1. Install", "2. Run" the only root is Intro, Setup is *)
(* nested under Intro and Setup's content is the two numbered lines.       *)
(***************************************************************************)
C7_NumberedLinesAreContent ==
    /\ Len(nodes) = Cardinality({k \in HeadingPositions :
                        /\ k < i
                        /\ ~(numbered_match(Strip(lines[k])) /\ OpenBefore(k))})
    /\ (text = TextNumbered /\ Done) =>
          /\ Len(sections) = 1
          /\ nodes[sections[1]].title = <<"I", "n", "t", "r", "o">>
          /\ Len(nodes) = 2
          /\ nodes[1].subsections = <<2>>
          /\ nodes[2].content = <<<<"1", ".", " ", "I", "n", "s", "t", "a", "l", "l">>,
                               <<"2", ".", " ", "R", "u", "n">>>>

(***************************************************************************)
(* C7 (amended): a numbered line under an open section starts a new        *)
(* root-level section of level 1 and is attached to no section's content;  *)
(* for the same lines the roots are Intro, "1. Install" and "2. Run",      *)
(* Setup is nested under Intro, Intro's content is ["Hello"] and Setup's   *)
(* content is empty.                                                       *)
(***************************************************************************)
C7_NumberedLinesStartSections ==
    /\ \A n \in 1..Len(nodes) : \A c \in Range(nodes[n].content) :
          ~numbered_match(c)
    /\ \A c \in Range(current_content) : ~numbered_match(c)
    /\ Cardinality({n \in 1..Len(nodes) : numbered_match(nodes[n].title)
                                           /\ nodes[n].level = 1 /\ IsRoot(n)})
          = Cardinality({k \in 1..(i - 1) : numbered_match(Strip(lines[k]))})
    /\ (text = TextNumbered /\ Done) =>
          /\ Len(nodes) = 4
          /\ sections = <<1, 3, 4>>
          /\ nodes[1].subsections = <<2>>
          /\ nodes[1].content = <<<<"H", "e", "l", "l", "o">>>>
          /\ nodes[2].title = <<"S", "e", "t", "u", "p">>
          /\ nodes[2].content = <<>>
          /\ nodes[3].title = <<"1", ".", " ", "I", "n", "s", "t", "a", "l", "l">>
          /\ nodes[4].title = <<"2", ".", " ", "R", "u", "n">>

C7_Witness ==
    /\ text = TextNumbered
    /\ Done
    /\ Len(sections) = 3

(***************************************************************************)
(* C8: a numbered line is a level-1 heading whatever its number and        *)
(* whatever sections are open: right after it is processed the new         *)
(* section is root-level, every section open before is closed and the      *)
(* stack holds exactly the new section.                                    *)
(***************************************************************************)
C8_NumberedClosesAll ==
    (i > 1 /\ numbered_match(LastLine)) =>
        LET n == Len(nodes)
        IN  /\ n >= 1
            /\ nodes[n].title = LastLine
            /\ nodes[n].level = 1
            /\ section_stack = <<n>>
            /\ Last(sections) = n
            /\ Parents(n) = {}

C8_Witness ==
    /\ text = TextDeep
    /\ pc = "loop"
    /\ i = Len(lines) + 1
    /\ Len(nodes) = 4
    /\ nodes[2].subsections = <<3>>
    /\ section_stack = <<4>>

(***************************************************************************)
(* C9: every non-blank content line below a heading is attached exactly    *)
(* once, to the section of the nearest preceding heading, in source order  *)
(* and without deduplication.                                              *)
(***************************************************************************)
C9_ContentInSourceOrder ==
    Done => \A n \in 1..Len(nodes) : nodes[n].content = NonBlank(Body(n))

C9_Witness ==
    /\ Done
    /\ Len(nodes) = 2
    /\ nodes[1].subsections = <<2>>
    /\ nodes[1].content = <<>>
    /\ Len(nodes[2].content) = 2
    /\ nodes[2].content[1] = nodes[2].content[2]

(***************************************************************************)
(* C10 (as stated): every section's children field lists its immediate     *)
(* nested sections in document order, the same sections as its             *)
(* subsections field, also in the flattened entries; for "# A", "## B",    *)
(* "## C", "# D" the children of A are [B, C].                             *)
(***************************************************************************)
C10_ChildrenMirrorSubsections ==
    /\ \A n \in 1..Len(nodes) : nodes[n].children = nodes[n].subsections
    /\ \A k \in 1..Len(flat) : flat[k].children = flat[k].subsections
    /\ (text = TextABCD /\ Done) => flat[1].children = <<2, 3>>

(***************************************************************************)
(* C12: the markup form is tested first and wins: a line of 1 to 6         *)
(* markers, at least one space and text becomes a heading whose level is   *)
(* the number of markers and whose title is the trimmed remainder, also    *)
(* when the line has the shout-case form ("## SETUP" has level 2).         *)
(***************************************************************************)
\* number of markers of a line of the markup form, 0 for any other line
MarkupForm(line) ==
    LET ns == {n \in 1..6 : /\ Len(line) > n + 1
                            /\ \A k \in 1..n : line[k] = "#"
                            /\ line[n + 1] \in Whitespace}
    IN  IF ns = {} THEN 0 ELSE CHOOSE n \in ns : TRUE

C12_MarkupWins ==
    /\ (i > 1 /\ MarkupForm(LastLine) > 0) =>
          LET n == Len(nodes)
              m == MarkupForm(LastLine)
          IN  /\ n >= 1
              /\ nodes[n].level = m
              /\ nodes[n].title = Strip(SubSeq(LastLine, m + 1, Len(LastLine)))
              /\ Last(section_stack) = n
    /\ (text = TextSetup /\ Done) =>
          /\ Len(nodes) = 2
          /\ nodes[2].level = 2
          /\ nodes[2].title = <<"S", "E", "T", "U", "P">>
          /\ nodes[1].subsections = <<2>>

C12_Witness ==
    /\ text = TextSetup
    /\ Done
    /\ caps_match(Strip(lines[2]))
    /\ nodes[2].level = 2

(***************************************************************************)
(* C13 (as stated): a markup line with more than 6 markers followed by a   *)
(* space and text is accepted as a markup heading of level 6.              *)
(***************************************************************************)
\* more than six markers, then whitespace, then text
LongMarkerRun(line) ==
    LET n == LeadingCount(line, {"#"})
    IN  n > 6 /\ Len(line) > n + 1 /\ line[n + 1] \in Whitespace

C13_LongRunIsLevelSix ==
    (i > 1 /\ LongMarkerRun(LastLine)) =>
        LET n == Len(nodes)
            m == LeadingCount(LastLine, {"#"})
        IN  /\ n >= 1
            /\ nodes[n].level = 6
            /\ nodes[n].title = Strip(SubSeq(LastLine, m + 1, Len(LastLine)))
            /\ Last(section_stack) = n

(***************************************************************************)
(* C13 (amended): a markup line with more than 6 markers followed by a     *)
(* space and text is not a markup heading: it is buffered as content,      *)
(* unless it has an uppercase letter, no lowercase letter, fewer than 100  *)
(* characters and no final period, and then it is a level-1 heading whose  *)
(* title is the whole line.                                                *)
(***************************************************************************)
ShoutForm(line) ==
    /\ Len(line) < 100
    /\ \E k \in 1..Len(line) : line[k] \in UpperCase
    /\ \A k \in 1..Len(line) : line[k] \notin LowerCase
    /\ Last(line) # "."

C13_LongRunIsNotMarkup ==
    (i > 1 /\ LongMarkerRun(LastLine)) =>
        IF ShoutForm(LastLine)
        THEN LET n == Len(nodes)
             IN  /\ n >= 1
                 /\ nodes[n].level = 1
                 /\ nodes[n].title = LastLine
                 /\ section_stack = <<n>>
                 /\ current_content = <<>>
        ELSE /\ current_content # <<>>
             /\ Last(current_content) = LastLine
             /\ \A n \in 1..Len(nodes) : nodes[n].title # LastLine

C13_Witness ==
    /\ text = TextSeven
    /\ Done
    /\ Len(nodes) = 3
    /\ nodes[2].level = 1
    /\ nodes[2].content = <<<<"#", "#", "#", "#", "#", "#", "#", "#", " ", "y">>>>
    /\ nodes[3].level = 6

(***************************************************************************)
(* C14: structuring keeps no state between invocations: the sections       *)
(* returned for a text (ids, order, levels, titles, content, nesting) are  *)
(* the same whether the call is the first one or follows other calls, on   *)
(* the same or on another converter object.                                *)
(***************************************************************************)
C14_SameResultEveryCall ==
    /\ \A a, b \in 1..Len(history) :
          history[a].text = history[b].text =>
              history[a].sections = history[b].sections
    /\ Done => \A a \in 1..Len(history) :
          history[a].text = text =>
              history[a].sections = Returned(flat, nodes)

C14_Witness ==
    /\ Done
    /\ Len(history) = 2
    /\ history[1].text = text
    /\ history[2].text # text
    /\ Len(history[2].sections) > 0
    /\ Len(flat) > 1
    /\ \E k \in 1..Len(flat) : flat[k].subsections # <<>>

(***************************************************************************)
(* C18 (as stated): the returned keywords are the candidates deduplicated  *)
(* ignoring case (first spelling kept) and then cut to 50: a candidate is  *)
(* left out only because an earlier candidate equals it ignoring case or   *)
(* because 50 keywords precede it.                                         *)
(***************************************************************************)
\* positions of the candidates that no earlier candidate among the first
\* upto equals ignoring case
FirstSeen(upto) ==
    {k \in 1..Len(candidates) :
        /\ k <= upto
        /\ \A j \in 1..(k - 1) :
              ToLower(candidates[j].text) # ToLower(candidates[k].text)}

\* the candidates at the first limit positions of S, in order
Kept(S, limit) ==
    LET keep == {k \in S : Cardinality({j \in S : j < k}) < limit}
    IN  [m \in 1..Cardinality(keep) |->
            candidates[CHOOSE k \in keep :
                           Cardinality({j \in keep : j <= k}) = m]]

NoCaseDuplicates(kws) ==
    \A j, k \in 1..Len(kws) :
        j # k => ToLower(kws[j].text) # ToLower(kws[k].text)

C18_DedupThenFifty ==
    pc = "keywords_done" =>
        /\ unique_keywords = Kept(FirstSeen(Len(candidates)), 50)
        /\ NoCaseDuplicates(unique_keywords)

(***************************************************************************)
(* C18 (amended): the returned keywords are the first 100 candidates       *)
(* deduplicated ignoring case (first spelling kept) and then cut to 50,    *)
(* or to 30 when the regex fallback produced them: a candidate is left out *)
(* only because it is not among the first 100, or an earlier candidate     *)
(* equals it ignoring case, or 50 (30) keywords precede it.                *)
(***************************************************************************)
C18_FirstHundredDedupThenLimit ==
    pc = "keywords_done" =>
        /\ unique_keywords =
               Kept(FirstSeen(100),
                    IF strategy \in {"spacy", "nltk"} THEN 50 ELSE 30)
        /\ NoCaseDuplicates(unique_keywords)

C18_Witness ==
    /\ pc = "keywords_done"
    /\ strategy = "nltk"
    /\ Len(candidates) > 100
    /\ Len(unique_keywords) = 2
    /\ ToLower(candidates[2].text) = ToLower(candidates[1].text)
    /\ candidates[2].text # candidates[1].text

(***************************************************************************)
(* Vocabulary of the document properties.                                  *)
(***************************************************************************)
Built == doc # <<>>

DocSections == doc[1].content.sections

Analysis == doc[1].analysis

IsNested(n) == n \in 1..Len(nodes) /\ ~IsRoot(n)

(***************************************************************************)
(* C11: the sections list of the document holds root-level sections only;  *)
(* no nested section is an element of the top-level list.                  *)
(***************************************************************************)
C11_SectionsAreRoots ==
    Built =>
        \A k \in 1..Len(DocSections) :
            \E r \in Range(sections) : DocSections[k] = Resolve(nodes[r], nodes)

(***************************************************************************)
(* C11 (amended): the sections list of the document holds every section of *)
(* the tree, root-level and nested, once each and in the order of the      *)
(* headings; a nested section is an element of the list and also of the    *)
(* subsections of the element it is nested under.                          *)
(***************************************************************************)
C11_SectionsListEverySection ==
    Built =>
        /\ Len(DocSections) = Len(nodes)
        /\ \A k \in 1..Len(DocSections) :
              DocSections[k] = Resolve(nodes[k], nodes)
        /\ \A n \in 1..Len(nodes) :
              IsNested(n) =>
                  \E p \in 1..Len(DocSections) :
                      DocSections[n] \in Range(DocSections[p].subsections)

C11_Witness ==
    /\ Built
    /\ Len(DocSections) = 4
    /\ Len(sections) = 2
    /\ IsNested(2) /\ IsNested(3)

(***************************************************************************)
(* C15: convert_to_yaml on an empty extracted text returns False with the  *)
(* "no text" message, never enters structuring, builds no document and     *)
(* writes no file; a non-empty text without headings ends otherwise: its   *)
(* document is built and the "no text" message is never logged.            *)
(***************************************************************************)
C15_EmptyTextIsNoContent ==
    caller = "convert_to_yaml" =>
        /\ text = <<>> =>
              /\ pc \in {"convert", "returned"}
              /\ lines = <<>> /\ nodes = <<>> /\ flat = <<>>
              /\ ~Built
              /\ ~yaml_written
              /\ pc = "returned" =>
                     result = "False" /\ log = "No text extracted"
        /\ (text # <<>> /\ pc = "returned" /\ NumHeadings = 0) =>
              /\ Built
              /\ log # "No text extracted"
              /\ yaml_written <=> result = "True"

C15_Witness ==
    /\ caller = "convert_to_yaml"
    /\ text = <<>>
    /\ pc = "returned"
    /\ result = "False"

Items == Range(Analysis.best_practices) \cup Range(Analysis.examples)

\* the document has been built by a call that was not cut short
Annotated == pc \in {"parsed", "returned"} /\ Built

\* a step taken once the structuring has returned
SectionsKept ==
    pc \in {"done", "parsed"} =>
        /\ nodes' = nodes /\ flat' = flat /\ sections' = sections
        /\ Built' => DocSections' = Returned(flat, nodes)

C17_SourceSectionExists ==
    Built =>
        \A item \in Items :
            item.source_section_id # NoSection =>
                \E k \in 1..Len(DocSections) :
                    /\ DocSections[k].id = item.source_section_id
                    /\ "section_based" \in Range(item.tags) =>
                          /\ AnyIn(IF item.tags[1] = "best_practice"
                                   THEN BestPracticeTitles ELSE ExampleTitles,
                                   ToLower(DocSections[k].title))
                          /\ Contains(JoinSpace(DocSections[k].content),
                                      item.text)

(***************************************************************************)
(* C19: no host makes the keyword extraction raise or the parse end        *)
(* without a document; the document's sections are the tree the            *)
(* structuring built, and the keywords are those of the first strategy of  *)
(* the chain spaCy, NLTK, regex heuristic that is installed and works.     *)
(***************************************************************************)
C19_NextStrategyInChain ==
    /\ pc # "raised"
    /\ Annotated =>
          /\ DocSections = Returned(flat, nodes)
          /\ Strip(text) # <<>> =>
                Analysis.keywords =
                    IF env.spacy = "ok"
                    THEN UniqueLimited(SpacyCandidates(text, env.found), TopLimit)
                    ELSE IF env.nltk = "ok"
                    THEN UniqueLimited(NltkCandidates(text, env.found), TopLimit)
                    ELSE extract_keywords_fallback(text)

(***************************************************************************)
(* C19 (amended): no host makes the keyword extraction raise or the parse  *)
(* end without a document, and the document's sections are the tree the    *)
(* structuring built.  The keywords are spaCy's when spaCy works; NLTK's    *)
(* when spaCy is not installed and NLTK works; in every other case (NLTK   *)
(* not installed either, or a failure that is not a missing library: the   *)
(* spaCy model cannot be loaded, the analysis raises, NLTK raises) those   *)
(* of the regex heuristic, NLTK not being tried after a spaCy failure.     *)
(***************************************************************************)
C19_KeywordsNeverAbort ==
    /\ pc # "raised"
    /\ pc \in {"parsed", "returned"} =>
          (Built \/ (caller = "convert_to_yaml" /\ text = <<>>))
    /\ Annotated =>
          /\ DocSections = Returned(flat, nodes)
          /\ Strip(text) # <<>> =>
                Analysis.keywords =
                    IF env.spacy = "ok"
                    THEN UniqueLimited(SpacyCandidates(text, env.found), TopLimit)
                    ELSE IF env.spacy = "ImportError" /\ env.nltk = "ok"
                    THEN UniqueLimited(NltkCandidates(text, env.found), TopLimit)
                    ELSE extract_keywords_fallback(text)

C19_Witness ==
    /\ Annotated
    /\ env.spacy = "load_fails"
    /\ env.found = "words"
    /\ Len(Analysis.keywords) > 1
    /\ Len(DocSections) > 1

(***************************************************************************)
(* C20: the confidence of a keyword is that of the strategy that produced  *)
(* it: high from spaCy, medium from NLTK, low from the regex fallback, so  *)
(* no fallback keyword is at or above medium.                              *)
(***************************************************************************)
C20_FallbackBelowLinguistic ==
    Annotated =>
        \A kw \in Range(Analysis.keywords) :
            kw.confidence_level =
                IF strategy = "spacy" THEN "high"
                ELSE IF strategy = "nltk" THEN "medium"
                ELSE "low"

\* digits, a period, whitespace, and something after it
NumberedForm(line) ==
    \E d \in 1..Len(line) :
        /\ \A k \in 1..d : line[k] \in Digits
        /\ Len(line) >= d + 3
        /\ line[d + 1] = "."
        /\ line[d + 2] \in Whitespace

HasUpper(line) == \E k \in 1..Len(line) : line[k] \in UpperCase

NoLower(line) == \A k \in 1..Len(line) : line[k] \notin LowerCase

(***************************************************************************)
(* C25: a line that is neither of the markup nor of the numbered form and  *)
(* holds an uppercase letter opens a level-1 section titled by the line    *)
(* itself exactly when it is shorter than 100 characters, holds no         *)
(* lowercase letter and does not end with a period; otherwise it is        *)
(* content.                                                                *)
(***************************************************************************)
C25_ShoutHeading ==
    (/\ i > 1
     /\ MarkupForm(LastLine) = 0
     /\ ~NumberedForm(LastLine)
     /\ HasUpper(LastLine)) =>
        IF Len(LastLine) < 100 /\ NoLower(LastLine) /\ Last(LastLine) # "."
        THEN LET n == Len(nodes)
             IN  /\ n >= 1
                 /\ nodes[n].level = 1
                 /\ nodes[n].title = LastLine
                 /\ nodes[n].subsections = <<>>
                 /\ IsRoot(n)
                 /\ section_stack = <<n>>
                 /\ current_content = <<>>
        ELSE /\ current_content # <<>>
             /\ Last(current_content) = LastLine

C25_Witness ==
    /\ text = TextShout
    /\ Done
    /\ Len(nodes) = 2
    /\ nodes[1].title = CapsLine(99)
    /\ nodes[1].content = <<CapsLine(100), <<"D", "O", "N", "E", ".">>>>
    /\ nodes[2].title = <<"V", "2", ":", " ", "G", "O", "!">>

(***************************************************************************)
(* C26: after every line the stack of open sections is the rightmost path  *)
(* of the tree built so far: levels strictly increase from bottom to top,  *)
(* the bottom is the last root-level section, every other element is the   *)
(* last section nested under the element below it, the top is the section  *)
(* created last, and the stack is empty only before the first heading.     *)
(***************************************************************************)
C26_StackIsRightmostPath ==
    /\ \A k \in 2..Len(section_stack) :
          /\ nodes[section_stack[k - 1]].level < nodes[section_stack[k]].level
          /\ nodes[section_stack[k - 1]].subsections # <<>>
          /\ section_stack[k] = Last(nodes[section_stack[k - 1]].subsections)
    /\ section_stack # <<>> =>
          /\ sections # <<>>
          /\ section_stack[1] = Last(sections)
          /\ Last(section_stack) = Len(nodes)
    /\ pc \in {"loop", "done"} => (section_stack = <<>> <=> ~OpenBefore(i))
    /\ section_stack = <<>> => sections = <<>>

C26_Witness ==
    /\ Len(section_stack) = 3
    /\ Len(nodes) = 4
    /\ nodes[1].subsections = <<2, 3>>
    /\ section_stack = <<1, 3, 4>>

\* the items the section-title pass took from sections of this kind
SectionBased(items, item_type) ==
    SelectSeq(items, LAMBDA item : item.tags = <<item_type, "section_based">>)

\* the sections of the document whose title is of the vocabulary and whose
\* content is bullet lines only
BulletSections(vocabulary) ==
    {k \in 1..Len(DocSections) :
        /\ AnyIn(vocabulary, ToLower(DocSections[k].title))
        /\ DocSections[k].content # <<>>
        /\ \A c \in Range(DocSections[k].content) : IsListItem(c)}

(***************************************************************************)
(* C30: a section with a best-practice title whose content is N bullet     *)
(* lines gives N high-confidence section-based items, one per bullet line; *)
(* likewise for a section with an example title.                           *)
(***************************************************************************)
C30_OneItemPerBullet ==
    Built =>
        /\ \A k \in BulletSections(BestPracticeTitles) :
              \A c \in Range(DocSections[k].content) :
                  \E item \in Range(SectionBased(Analysis.best_practices,
                                                 "best_practice")) :
                      item.text = c /\ item.confidence_level = "high"
        /\ \A k \in BulletSections(ExampleTitles) \ BulletSections(BestPracticeTitles) :
              \A c \in Range(DocSections[k].content) :
                  \E item \in Range(SectionBased(Analysis.examples, "example")) :
                      item.text = c /\ item.confidence_level = "high"

SevenExtensions ==
    {<<".", "p", "d", "f">>, <<".", "m", "d">>, <<".", "t", "x", "t">>,
     <<".", "d", "o", "c", "x">>, <<".", "h", "t", "m", "l">>,
     <<".", "r", "t", "f">>, <<".", "e", "p", "u", "b">>}

\* the construction has ended, by a return or by an exception
ConstructionOver == pc \in {"constructed", "typed", "ValueError"}

(***************************************************************************)
(* C21: the supported extensions are .pdf, .md, .txt, .docx, .html, .rtf   *)
(* and .epub; the construction succeeds for a path with one of them and    *)
(* raises ValueError "Unsupported file format" for any other.              *)
(***************************************************************************)
C21_SevenExtensions ==
    ConstructionOver =>
        /\ SUPPORTED_EXTENSIONS = SevenExtensions
        /\ IF ToLower(Suffix(file_path)) \in SevenExtensions
           THEN pc # "ValueError"
           ELSE pc = "ValueError" /\ log = "Unsupported file format"

(***************************************************************************)
(* Vocabulary of the TOON properties.                                      *)
(***************************************************************************)
ConvertReturned == pc = "convert_returned"

\* convert() has taken the step and it ended this way
Took(step, outcome) == \E k \in 1..Len(calls) : calls[k] = Call(step, outcome)

FirstStepOk == Took("yaml_to_json", "ok") \/ Took("validate_json", "ok")

\* an outcome that is a failure of its step
IsFailure(call) ==
    call.outcome # "ok" /\ ~(call.step = "get_token_stats" /\ call.outcome = "None")

(***************************************************************************)
(* C22: once convert() of the YAML converter has returned True, the        *)
(* temporary JSON file of its source does not exist.                       *)
(***************************************************************************)
C22_TempGoneAfterSuccess ==
    (kind = "yaml" /\ ret = "True") => json_temp_path(cur) \notin fs

C22_Witness ==
    /\ kind = "yaml"
    /\ ConvertReturned
    /\ ret = "True"
    /\ Took("yaml_to_json", "ok")
    /\ toon_path(cur) \in fs

(***************************************************************************)
(* C23: convert() never raises; it returns True exactly when its first     *)
(* step and the encode both succeeded; no step follows a failed one; and a *)
(* get_token_stats that returns None does not make it fail.                *)
(***************************************************************************)
C23_TrueIffBothSteps ==
    /\ ret # "raised"
    /\ ConvertReturned =>
          (ret = "True" <=> (FirstStepOk /\ Took("encode", "ok")))
    /\ \A k \in 1..Len(calls) : IsFailure(calls[k]) => k = Len(calls)

(***************************************************************************)
(* C23 (amended): convert() never raises; it returns True exactly when its *)
(* first step and the encode both succeeded and, for the YAML converter,   *)
(* the removal of the temporary JSON file did not raise; no step follows a *)
(* failed one (a failed step makes it return False); a get_token_stats     *)
(* that returns None does not make it fail.                                *)
(***************************************************************************)
C23_TrueIffStepsAndCleanup ==
    /\ ret # "raised"
    /\ ConvertReturned =>
          /\ ret \in {"True", "False"}
          /\ ret = "True" <=>
                /\ FirstStepOk
                /\ Took("encode", "ok")
                /\ ~Took("unlink", "OSError")
          /\ (\E k \in 1..Len(calls) : IsFailure(calls[k])) => ret = "False"
    /\ \A k \in 1..Len(calls) : IsFailure(calls[k]) => k = Len(calls)
    /\ ~FirstStepOk => \A k \in 1..Len(calls) : calls[k].step # "encode"

C23_Witness ==
    /\ ConvertReturned
    /\ ret = "True"
    /\ Took("get_token_stats", "None")
    /\ failed = 1

(***************************************************************************)
(* C24: in every run of convert() the TOON CLI has been validated          *)
(* (ensure_toon_available) before the encode is invoked.                   *)
(***************************************************************************)
C24_ValidationBeforeEncode ==
    \A k \in 1..Len(calls) :
        calls[k].step = "encode" =>
            \E j \in 1..(k - 1) : calls[j] = Call("ensure_toon_available", "ok")

(***************************************************************************)
(* C29: whenever convert() of the YAML converter has returned, with True   *)
(* or with False, the temporary JSON file of its source does not exist.    *)
(***************************************************************************)
C29_TempGoneWheneverReturned ==
    (kind = "yaml" /\ ret \in {"True", "False"}) => json_temp_path(cur) \notin fs

(***************************************************************************)
(* Vocabulary of the chunker properties.                                   *)
(***************************************************************************)
ChunksReturned == pc \in {"chunked", "embedded"}

\* the configuration the statement is about
ValidOverlap == 0 <= overlap /\ overlap < chunk_size

\* the loop is at a position it has been at before: chunk_text is
\* deterministic, so it repeats from there for ever
Repeats ==
    \E k \in 1..Len(chunks) : pc = "while" /\ chunks[k].start = start

(***************************************************************************)
(* C27: with 0 <= overlap < chunk_size, chunk_text terminates: the loop    *)
(* never comes back to a start position it had (each iteration moves the   *)
(* start forward), and the chunks returned have consecutive chunk_id       *)
(* values from 0, the last of them ending at len(text).                    *)
(***************************************************************************)
C27_ChunkingTerminates ==
    ValidOverlap =>
        /\ ~Repeats
        /\ \A k \in 1..(Len(chunks) - 1) : chunks[k + 1].start > chunks[k].start
        /\ \A k \in 1..Len(chunks) : chunks[k].chunk_id = k - 1
        /\ ChunksReturned => chunks[Len(chunks)].end = Len(text)

(***************************************************************************)
(* C28: the index holds as many vectors as doc_store holds documents, the  *)
(* i-th vector is the embedding of the i-th key of doc_store, and every    *)
(* pair search returns names the document whose embedding matched; also    *)
(* after a document was added with an id that is already stored.           *)
(***************************************************************************)
C28_IndexMatchesStore ==
    /\ Len(index) = Len(doc_store)
    /\ \A k \in 1..Len(doc_store) : index[k] = doc_store[k].embedding
    /\ \A k \in 1..Len(results) :
          \E j \in 1..Len(doc_store) :
              /\ doc_store[j].id = results[k].doc_id
              /\ doc_store[j].embedding = index[results[k].idx + 1]

====
